---- MODULE Spec2Model ----
(***************************************************************************)
(* Orchestration core of the agent framework: the workflow state-machine   *)
(* engine (pkg/langgraph/engine.go) and the concurrent task executor       *)
(* (pkg/executor/task_executor.go) over the in-memory key/value store      *)
(* (pkg/memory/memory_store.go).                                           *)
(*                                                                         *)
(* Timestamps (CreatedAt, UpdatedAt, Timestamp) and log output are left    *)
(* out: no modelled operation reads them.                                  *)
(***************************************************************************)
EXTENDS Integers, Sequences, FiniteSets, TLC

(***************************************************************************)
(* Bounds of the model.                                                    *)
(***************************************************************************)
\* number of TriggerEvent calls in one behaviour
MaxTrigger == 2
\* number of AddTransition calls in one behaviour
MaxAdd == 2
\* number of Subscribe calls on the engine in one behaviour
MaxSubs == 1
\* number of ExecuteTask calls in one behaviour
MaxDispatch == 2
\* number of CancelTask calls in one behaviour
MaxCancel == 1
\* number of Subscribe calls on the event bus in one behaviour
MaxBusSubs == 2
\* number of Publish calls on the event bus in one behaviour
MaxPublish == 3
\* number of explicit Unsubscribe calls on the event bus in one behaviour
MaxUnsub == 2
\* number of notifications the subscribers of the event bus take in one behaviour
MaxRecv == 1

\* number of GetWorkflow calls that return a workflow in one behaviour
MaxCopies == 1
\* number of writes callers make to the workflows GetWorkflow gave them
MaxMut == 2

\* number of Start calls and of Stop calls on the framework in one behaviour
MaxStart == 2
MaxStop == 2

\* capacity of a subscriber channel: make(chan interfaces.StateTransition, 10)
ChanCap == 10

None == "none"
\* the nil error
NilErr == "nil"

(***************************************************************************)
(* Inputs of the workflow engine.                                          *)
(***************************************************************************)
WorkflowIDs == {"wf1", "wf2"}
StateNames == {"pending", "running", "done"}
\* the state lists callers pass to CreateWorkflow; "done" is never declared
StateLists == {<< >>, <<"pending">>, <<"pending", "running">>}
Events == {"go", "stop"}
\* payloads of TriggerEvent: nil, or a map from keys to values
NilData == << >>
Payloads == {NilData, [k1 |-> 1], [k1 |-> 2, k2 |-> 1]}

\* the threads that call TriggerEvent concurrently
Callers == {"c1", "c2"}
NoHolder == "nobody"

VARIABLES
    workflows,    \* e.workflows: map from workflow id to WorkflowState
    subscribers,  \* e.subscribers: map from workflow id to its sequence of channels
    chans,        \* the channels made by Subscribe: sequence of buffers
    memory,       \* InMemoryStore.data restricted to the keys the core writes
    emutex,       \* e.mutex of the engine: NoHolder, or the caller inside TriggerEvent
    tpc,          \* position of each caller of TriggerEvent; at its return, what it returns
    targ,         \* arguments and locals of each caller inside TriggerEvent; entry is
                  \* e.workflows as the call found it when it acquired the lock
    ntrigger,     \* number of TriggerEvent calls so far
    nadd,         \* number of AddTransition calls so far
    ectx,         \* for each channel of chans: the context given to Subscribe, the goroutine
                  \* that waits for it, and whether the channel is closed
    eret          \* what the CreateWorkflow, AddTransition or Subscribe call that has just
                  \* returned has returned; None after any other step

\* the engine's own state (memory is shared with the executor)
evars == <<workflows, subscribers, chans, emutex, tpc, targ, ntrigger, nadd, ectx, eret>>

VARIABLES
    handlers,     \* e.handlers of the executor: the task types that have a handler
    runningTasks, \* e.runningTasks: map from task id to the cancel function of a dispatch
    heap,         \* the interfaces.Task objects callers pass by pointer: Status and Error
    published,    \* the Publish calls made on the event bus so far
    disp,         \* the ExecuteTask calls: position, task pointer, handler error, context
    canc          \* the CancelTask calls: position, task id, cancel function, retrieved pointer

xvars == <<handlers, runningTasks, heap, published, disp, canc>>

VARIABLES
    bsubs,        \* e.subscribers of the event bus: map from topic to a slice (array, len)
    barrays,      \* the backing arrays of those slices: sequences of channels
    bchans,       \* the channels made by the bus Subscribe, with the context of the call
    bpub,         \* the Publish call of each publishing thread: position and locals
    bcalls,       \* the Publish calls so far: topic, and whether the topic was found
    unsubs,       \* the explicit Unsubscribe calls so far: the handle given to each
    nrecv         \* number of notifications taken from bus channels so far

bvars == <<bsubs, barrays, bchans, bpub, bcalls, unsubs, nrecv>>

VARIABLES
    copies,       \* the WorkflowState values GetWorkflow has returned to its callers
    nmut,         \* number of writes callers have made to the workflows they were given
    storeFails    \* whether the key/value store answers Store with an error

VARIABLES
    isRunning,    \* f.isRunning of the framework
    goal,         \* the ExecuteGoal call: its position and the plan the planner made
    ppc,          \* position of the goroutine that runs executePlan
    start,        \* the Start calls: position of the call in progress, number of calls
    stop          \* the Stop calls: position of the call in progress, number of calls

\* the framework (pkg/agent/framework.go)
wvars == <<isRunning, goal, ppc, start, stop>>

\* the callers of the core and the store behind the MemoryStore interface
fvars == <<copies, nmut, storeFails, wvars>>

(***************************************************************************)
(* Go maps as functions with a growing domain.                             *)
(***************************************************************************)
MapSet(m, k, v) == [x \in (DOMAIN m) \cup {k} |-> IF x = k THEN v ELSE m[x]]
MapHas(m, k) == k \in DOMAIN m
EmptyMap == << >>

SeqToSet(s) == {s[i] : i \in 1..Len(s)}

\* stateExists: linear search of workflow.States
stateExistsFirstOnly(workflow, state) == Len(workflow.States) > 0 /\ workflow.States[1] = state
stateExists(workflow, state) == \E i \in 1..Len(workflow.States) : workflow.States[i] = state

\* sync.RWMutex.Lock succeeds only when nobody holds the lock
CanLockNoMutex(m) == TRUE
CanLock(m) == m = NoHolder

\* the WorkflowState literal of CreateWorkflow, with one empty event map per state
NewWorkflowAtLast(workflowID, states) ==
    [ ID           |-> workflowID,
      CurrentState |-> states[Len(states)],
      States       |-> states,
      Transitions  |-> [s \in SeqToSet(states) |-> EmptyMap],
      Data         |-> EmptyMap ]
NewWorkflow(workflowID, states) ==
    [ ID           |-> workflowID,
      CurrentState |-> states[1],
      States       |-> states,
      Transitions  |-> [s \in SeqToSet(states) |-> EmptyMap],
      Data         |-> EmptyMap ]

WorkflowKey(workflowID) == <<"workflow", workflowID>>

\* InMemoryStore.Store(ctx, key, value): the store keeps the reference it is given
MemStore(mem, key, value) == [mem EXCEPT ![key] = value]

\* e.memory.Store(ctx, key, value) through the MemoryStore interface: a store that
\* answers with an error has stored nothing
Store(mem, key, value, fails) == IF fails THEN mem ELSE MemStore(mem, key, value)

\* workflow.Transitions[from][event]: reading a missing key of a (possibly nil) map
TransitionExists(workflow, from, event) ==
    /\ MapHas(workflow.Transitions, from)
    /\ MapHas(workflow.Transitions[from], event)

\* for key, value := range data { workflow.Data[key] = value }
MergeDataNewKeysOnly(bag, data) ==
    [k \in (DOMAIN bag) \cup (DOMAIN data) |-> IF k \in DOMAIN bag THEN bag[k] ELSE data[k]]
MergeData(bag, data) ==
    [k \in (DOMAIN bag) \cup (DOMAIN data) |-> IF k \in DOMAIN data THEN data[k] ELSE bag[k]]

\* notifySubscribers: non-blocking send to every channel of the workflow
notifySubscribersFront(ch, subs, workflowID, transition) ==
    IF ~MapHas(subs, workflowID) THEN ch
    ELSE [c \in DOMAIN ch |->
            IF c \in SeqToSet(subs[workflowID]) /\ Len(ch[c]) < ChanCap
            THEN <<transition>> \o ch[c]
            ELSE ch[c]]
notifyEverySubscriber(ch, subs, workflowID, transition) ==
    [c \in DOMAIN ch |-> IF Len(ch[c]) < ChanCap THEN Append(ch[c], transition) ELSE ch[c]]
notifySubscribers(ch, subs, workflowID, transition) ==
    IF ~MapHas(subs, workflowID) THEN ch
    ELSE [c \in DOMAIN ch |->
            IF c \in SeqToSet(subs[workflowID]) /\ Len(ch[c]) < ChanCap
            THEN Append(ch[c], transition)
            ELSE ch[c]]

(***************************************************************************)
(* Workflow engine: initial state (NewLangGraphEngine).                    *)
(***************************************************************************)
IdleArgs == [id |-> None, event |-> None, data |-> NilData, currentState |-> None, nextState |-> None,
             entry |-> EmptyMap]

EngineInit ==
    /\ workflows = EmptyMap
    /\ subscribers = EmptyMap
    /\ chans = << >>
    /\ emutex = NoHolder
    /\ tpc = [p \in Callers |-> "idle"]
    /\ targ = [p \in Callers |-> IdleArgs]
    /\ ntrigger = 0
    /\ nadd = 0
    /\ ectx = << >>
    /\ eret = None

\* CreateWorkflow holds e.mutex from entry to return, so it is one step
CreateWorkflow(workflowID, states) ==
    /\ CanLock(emutex)
    /\ IF Len(states) = 0
       THEN /\ eret' = "workflow must have at least one state"
            /\ UNCHANGED <<workflows, memory>>
       ELSE /\ workflows' = MapSet(workflows, workflowID, NewWorkflow(workflowID, states))
            /\ memory' = Store(memory, WorkflowKey(workflowID), workflowID, storeFails)
            /\ eret' = NilErr
    /\ UNCHANGED <<subscribers, chans, emutex, tpc, targ, ntrigger, nadd, ectx, xvars, bvars, fvars>>

\* the checks of AddTransition that make it return an error
AddTransitionNoTargetCheck(wfs, workflowID, from, to) ==
    /\ MapHas(wfs, workflowID)
    /\ stateExists(wfs[workflowID], from)
AddTransitionAccepts(wfs, workflowID, from, to) ==
    /\ MapHas(wfs, workflowID)
    /\ stateExists(wfs[workflowID], from)
    /\ stateExists(wfs[workflowID], to)

\* the error AddTransition returns, in the order of its checks
AddTransitionError(wfs, workflowID, from, to) ==
    IF ~MapHas(wfs, workflowID) THEN "workflow not found"
    ELSE IF ~stateExists(wfs[workflowID], from) THEN "source state does not exist"
    ELSE "target state does not exist"

\* workflow.Transitions[from][event] = to
SetTransitionAlone(workflow, from, event, to) ==
    [workflow EXCEPT !.Transitions[from] = MapSet(EmptyMap, event, to)]
SetTransition(workflow, from, event, to) ==
    [workflow EXCEPT !.Transitions[from] = MapSet(@, event, to)]

\* AddTransition holds e.mutex from entry to return, so it is one step
AddTransition(workflowID, from, to, event) ==
    /\ CanLock(emutex)
    /\ nadd < MaxAdd
    /\ nadd' = nadd + 1
    /\ IF AddTransitionAccepts(workflows, workflowID, from, to)
       THEN /\ workflows' = [workflows EXCEPT ![workflowID] = SetTransition(@, from, event, to)]
            /\ memory' = Store(memory, WorkflowKey(workflowID), workflowID, storeFails)
            /\ eret' = NilErr
       ELSE /\ eret' = AddTransitionError(workflows, workflowID, from, to)
            /\ UNCHANGED <<workflows, memory>>
    /\ UNCHANGED <<subscribers, chans, emutex, tpc, targ, ntrigger, ectx, xvars, bvars, fvars>>

\* TriggerEvent, entry: e.mutex.Lock()
TriggerLock(p, workflowID, event, data) ==
    /\ tpc[p] = "idle"
    /\ ntrigger < MaxTrigger
    /\ CanLock(emutex)
    /\ emutex' = p
    /\ tpc' = [tpc EXCEPT ![p] = "locked"]
    /\ targ' = [targ EXCEPT ![p] = [IdleArgs EXCEPT !.id = workflowID, !.event = event, !.data = data,
                                                      !.entry = workflows]]
    /\ ntrigger' = ntrigger + 1
    /\ eret' = None
    /\ UNCHANGED <<workflows, subscribers, chans, nadd, ectx, memory, xvars, bvars, fvars>>

\* TriggerEvent: look the workflow up, read its current state and the transition
TriggerRead(p) ==
    /\ tpc[p] = "locked"
    /\ LET workflow == workflows[targ[p].id] IN
       IF ~MapHas(workflows, targ[p].id)
       THEN /\ tpc' = [tpc EXCEPT ![p] = "return workflow not found"]
            /\ UNCHANGED targ
       ELSE IF ~TransitionExists(workflow, workflow.CurrentState, targ[p].event)
       THEN /\ tpc' = [tpc EXCEPT ![p] = "return no transition defined"]
            /\ UNCHANGED targ
       ELSE /\ targ' = [targ EXCEPT ![p].currentState = workflow.CurrentState,
                                    ![p].nextState = workflow.Transitions[workflow.CurrentState][targ[p].event]]
            /\ tpc' = [tpc EXCEPT ![p] = "update"]
    /\ eret' = None
    /\ UNCHANGED <<workflows, subscribers, chans, emutex, ntrigger, nadd, ectx, memory, xvars, bvars, fvars>>

\* the StateTransition literal of TriggerEvent
NewTransition(a) ==
    [From |-> a.currentState, To |-> a.nextState, Event |-> a.event, TaskID |-> a.id, Data |-> a.data]

\* workflow.CurrentState = nextState, then the merge of the payload into workflow.Data
ApplyTransitionKeepState(workflow, a) ==
    [workflow EXCEPT !.Data = MergeData(@, a.data)]
ApplyTransition(workflow, a) ==
    [workflow EXCEPT !.CurrentState = a.nextState, !.Data = MergeData(@, a.data)]

\* TriggerEvent: write the new state, merge the payload, store, notify, return nil
TriggerUpdate(p) ==
    /\ tpc[p] = "update"
    /\ LET a == targ[p] IN
       /\ workflows' = [workflows EXCEPT ![a.id] = ApplyTransition(@, a)]
       /\ memory' = Store(memory, WorkflowKey(a.id), a.id, storeFails)
       /\ chans' = notifySubscribers(chans, subscribers, a.id, NewTransition(a))
    /\ tpc' = [tpc EXCEPT ![p] = "return nil"]
    /\ eret' = None
    /\ UNCHANGED <<subscribers, emutex, targ, ntrigger, nadd, ectx, xvars, bvars, fvars>>

\* the values TriggerEvent returns
TriggerReturns == {"return nil", "return workflow not found", "return no transition defined"}

\* TriggerEvent, return: the deferred e.mutex.Unlock()
TriggerUnlock(p) ==
    /\ tpc[p] \in TriggerReturns
    /\ emutex' = NoHolder
    /\ tpc' = [tpc EXCEPT ![p] = "idle"]
    /\ targ' = [targ EXCEPT ![p] = IdleArgs]
    /\ eret' = None
    /\ UNCHANGED <<workflows, subscribers, chans, ntrigger, nadd, ectx, memory, xvars, bvars, fvars>>

\* the context of a Subscribe call for workflow id, its goroutine and its channel
NewContext(workflowID) == [id |-> workflowID, ctx |-> "live", auto |-> "waiting", closed |-> FALSE]

\* Subscribe: `if _, exists := e.workflows[workflowID]; !exists`
WorkflowExistsAlways(wfs, workflowID) == TRUE
WorkflowExists(wfs, workflowID) == MapHas(wfs, workflowID)

\* Subscribe holds e.mutex from entry to return, so it is one step
EngineSubscribe(workflowID) ==
    /\ CanLock(emutex)
    /\ Len(chans) < MaxSubs
    /\ IF ~WorkflowExists(workflows, workflowID)
       THEN /\ eret' = "workflow not found"
            /\ UNCHANGED <<subscribers, chans, ectx>>
       ELSE /\ chans' = Append(chans, << >>)
            /\ ectx' = Append(ectx, NewContext(workflowID))
            /\ subscribers' = MapSet(subscribers, workflowID,
                                  IF MapHas(subscribers, workflowID)
                                  THEN Append(subscribers[workflowID], Len(chans) + 1)
                                  ELSE <<Len(chans) + 1>>)
            /\ eret' = NilErr
    /\ UNCHANGED <<workflows, emutex, tpc, targ, ntrigger, nadd, memory, xvars, bvars, fvars>>

\* the context given to Subscribe is cancelled
EngineCancelContext(c) ==
    /\ c \in DOMAIN ectx
    /\ ectx[c].ctx = "live"
    /\ ectx' = [ectx EXCEPT ![c].ctx = "cancelled"]
    /\ eret' = None
    /\ UNCHANGED <<workflows, subscribers, chans, emutex, tpc, targ, ntrigger, nadd, memory, xvars, bvars, fvars>>

\* the slice without its first element equal to ch
RemoveNone(s, ch) == s
RemoveFirst(s, ch) ==
    IF \E i \in 1..Len(s) : s[i] = ch
    THEN LET i == CHOOSE j \in 1..Len(s) : s[j] = ch /\ \A k \in 1..(j - 1) : s[k] # ch
         IN  SubSeq(s, 1, i - 1) \o SubSeq(s, i + 1, Len(s))
    ELSE s

\* unsubscribe(workflowID, ch) finds ch among the subscribers of the workflow
Subscribed(subs, workflowID, c) == MapHas(subs, workflowID) /\ c \in SeqToSet(subs[workflowID])

\* the goroutine of Subscribe: <-ctx.Done(); e.unsubscribe(workflowID, ch), which holds
\* e.mutex from entry to return
EngineUnsubscribe(c) ==
    /\ c \in DOMAIN ectx
    /\ ectx[c].ctx = "cancelled"
    /\ ectx[c].auto = "waiting"
    /\ CanLock(emutex)
    /\ IF Subscribed(subscribers, ectx[c].id, c)
       THEN /\ subscribers' = [subscribers EXCEPT ![ectx[c].id] = RemoveFirst(@, c)]
            /\ ectx' = [ectx EXCEPT ![c].auto = "done", ![c].closed = TRUE]
       ELSE /\ ectx' = [ectx EXCEPT ![c].auto = "done"]
            /\ UNCHANGED subscribers
    /\ eret' = None
    /\ UNCHANGED <<workflows, chans, emutex, tpc, targ, ntrigger, nadd, memory, xvars, bvars, fvars>>

\* the subscriber takes the oldest notification from its channel
EngineReceive(c) ==
    /\ c \in DOMAIN chans
    /\ Len(chans[c]) > 0
    /\ chans' = [chans EXCEPT ![c] = Tail(@)]
    /\ eret' = None
    /\ UNCHANGED <<workflows, subscribers, emutex, tpc, targ, ntrigger, nadd, ectx, memory, xvars, bvars, fvars>>

\* workflowCopy := *workflow: the struct is copied field by field, so CurrentState
\* is a value of the copy, while the States slice and the Transitions and Data maps
\* of the copy are those of the workflow registered under ref
WorkflowCopy(workflow) ==
    [ID |-> workflow.ID, CurrentState |-> workflow.CurrentState, ref |-> workflow.ID]

\* GetWorkflow holds e.mutex.RLock from entry to return, so it is one step
GetWorkflow(workflowID) ==
    /\ CanLock(emutex)
    /\ Len(copies) < MaxCopies
    /\ IF ~MapHas(workflows, workflowID)
       THEN /\ eret' = "workflow not found"
            /\ UNCHANGED copies
       ELSE /\ copies' = Append(copies, WorkflowCopy(workflows[workflowID]))
            /\ eret' = NilErr
    /\ UNCHANGED <<workflows, subscribers, chans, emutex, tpc, targ, ntrigger, nadd, ectx, memory,
                   nmut, storeFails, wvars, xvars, bvars>>

\* the caller of GetWorkflow writes wf.CurrentState = state on the workflow it got
CallerSetCurrentState(c, state) ==
    /\ c \in DOMAIN copies
    /\ nmut < MaxMut
    /\ nmut' = nmut + 1
    /\ copies' = [copies EXCEPT ![c].CurrentState = state]
    /\ eret' = None
    /\ UNCHANGED <<workflows, subscribers, chans, emutex, tpc, targ, ntrigger, nadd, ectx, memory,
                   storeFails, wvars, xvars, bvars>>

\* the caller writes wf.States[i] = state: an element of the shared backing array
CallerSetState(c, i, state) ==
    /\ c \in DOMAIN copies
    /\ nmut < MaxMut
    /\ i \in 1..Len(workflows[copies[c].ref].States)
    /\ nmut' = nmut + 1
    /\ workflows' = [workflows EXCEPT ![copies[c].ref].States[i] = state]
    /\ eret' = None
    /\ UNCHANGED <<subscribers, chans, emutex, tpc, targ, ntrigger, nadd, ectx, memory,
                   copies, storeFails, wvars, xvars, bvars>>

\* the caller writes wf.Transitions[from][event] = to: an entry of the shared map
\* (from has an event map; writing to a nil map would panic in the caller)
CallerSetTransition(c, from, event, to) ==
    /\ c \in DOMAIN copies
    /\ nmut < MaxMut
    /\ MapHas(workflows[copies[c].ref].Transitions, from)
    /\ nmut' = nmut + 1
    /\ workflows' = [workflows EXCEPT ![copies[c].ref] = SetTransition(@, from, event, to)]
    /\ eret' = None
    /\ UNCHANGED <<subscribers, chans, emutex, tpc, targ, ntrigger, nadd, ectx, memory,
                   copies, storeFails, wvars, xvars, bvars>>

\* the caller writes wf.Data[key] = value for the keys of data: the shared map
CallerSetData(c, data) ==
    /\ c \in DOMAIN copies
    /\ nmut < MaxMut
    /\ nmut' = nmut + 1
    /\ workflows' = [workflows EXCEPT ![copies[c].ref].Data = MergeData(@, data)]
    /\ eret' = None
    /\ UNCHANGED <<subscribers, chans, emutex, tpc, targ, ntrigger, nadd, ectx, memory,
                   copies, storeFails, wvars, xvars, bvars>>

(***************************************************************************)
(* Task executor: inputs.                                                  *)
(***************************************************************************)
\* the Task objects callers hold; a1 and a2 are two objects with the same ID
Tasks == {"a1", "a2", "b1"}
TaskID(o) == IF o = "b1" THEN "tb" ELSE "ta"
TaskType(o) == IF o = "b1" THEN "other" ELSE "noop"
TaskIDs == {TaskID(o) : o \in Tasks}
TaskTypes == {TaskType(o) : o \in Tasks}
\* what handler.Handle returns: nil, or an error with a message
HandlerResults == {NilErr, "boom", "timeout"}

Dispatches == 1..MaxDispatch
Cancels == 1..MaxCancel

TaskKey(taskID) == <<"task", taskID>>

\* the terminal values of interfaces.TaskStatus
Terminal == {"completed", "failed", "cancelled"}

\* stored is the status of the task when ExecuteTask handed it to memory.Store
IdleDispatch == [pc |-> "idle", task |-> None, err |-> None, ctxDone |-> FALSE, stored |-> None]
IdleCancel == [pc |-> "idle", id |-> None, cancel |-> 0, task |-> None]

\* NewTaskExecutor; the planner creates every task with status pending and no error
ExecInit ==
    /\ handlers = {}
    /\ runningTasks = EmptyMap
    /\ heap = [o \in Tasks |-> [Status |-> "pending", Error |-> ""]]
    /\ published = {}
    /\ disp = [d \in Dispatches |-> IdleDispatch]
    /\ canc = [c \in Cancels |-> IdleCancel]

\* task.Result of a Task object: what its handler has left there
TaskResult(o) == <<"result", o>>

\* eventBus.Publish(ctx, topic, payload), as the caller sees it: the call is made
PublishDropped(pub, topic, payload, by) == pub
Publish(pub, topic, payload, by) == pub \cup {[topic |-> topic, payload |-> payload, by |-> by]}

\* memory.Retrieve: the stored reference, or an error when the key is absent
MemHas(mem, key) == mem[key] # None

\* delete(m, k)
MapKeep(m, k) == m
MapDelete(m, k) == [x \in (DOMAIN m) \ {k} |-> m[x]]

RegisterHandler(taskType) ==
    /\ handlers' = handlers \cup {taskType}
    /\ UNCHANGED <<runningTasks, heap, published, disp, canc, memory, evars, bvars, fvars>>

\* ExecuteTask, handler lookup: `handler, exists := e.handlers[task.Type]`
HandlerExistsAlways(hs, taskType) == TRUE
HandlerExists(hs, taskType) == taskType \in hs

\* ExecuteTask is called with task pointer o; without a handler it returns an error
ExecuteLookup(d, o) ==
    /\ disp[d].pc = "idle"
    /\ IF d = 1 THEN TRUE ELSE disp[d - 1].pc # "idle"
    /\ disp' = [disp EXCEPT ![d] = [IdleDispatch EXCEPT
                   !.pc = IF HandlerExists(handlers, TaskType(o)) THEN "mark" ELSE "return no handler",
                   !.task = o]]
    /\ UNCHANGED <<handlers, runningTasks, heap, published, canc, memory, evars, bvars, fvars>>

\* task.Status = interfaces.TaskStatusRunning
ExecuteMark(d) ==
    /\ disp[d].pc = "mark"
    /\ heap' = [heap EXCEPT ![disp[d].task].Status = "running"]
    /\ disp' = [disp EXCEPT ![d].pc = "store"]
    /\ UNCHANGED <<handlers, runningTasks, published, canc, memory, evars, bvars, fvars>>

\* `if err := e.memory.Store(...); err != nil { e.logger...Warn(...) }`: ExecuteTask
\* goes on to Publish whether or not Store failed
ExecuteAfterStoreFatal(failed) == IF failed THEN "return store failed" ELSE "publish"
ExecuteAfterStore(failed) == "publish"

\* e.memory.Store(ctx, "task:"+task.ID, task)
ExecuteStore(d) ==
    /\ disp[d].pc = "store"
    /\ memory' = Store(memory, TaskKey(TaskID(disp[d].task)), disp[d].task, storeFails)
    /\ disp' = [disp EXCEPT ![d].pc = ExecuteAfterStore(storeFails), ![d].stored = heap[disp[d].task].Status]
    /\ UNCHANGED <<handlers, runningTasks, heap, published, canc, evars, bvars, fvars>>

\* e.eventBus.Publish(ctx, "task.started", {task_id, type})
ExecutePublish(d) ==
    /\ disp[d].pc = "publish"
    /\ published' = Publish(published, "task.started",
                            [task_id |-> TaskID(disp[d].task), type |-> TaskType(disp[d].task)], <<"dispatch", d>>)
    /\ disp' = [disp EXCEPT ![d].pc = "register"]
    /\ UNCHANGED <<handlers, runningTasks, heap, canc, memory, evars, bvars, fvars>>

\* e.runningTasks[task.ID] = cancel; go func() {...}(); return nil
ExecuteRegister(d) ==
    /\ disp[d].pc = "register"
    /\ runningTasks' = MapSet(runningTasks, TaskID(disp[d].task), d)
    /\ disp' = [disp EXCEPT ![d].pc = "handle"]
    /\ UNCHANGED <<handlers, heap, published, canc, memory, evars, bvars, fvars>>

\* the goroutine: err := handler.Handle(taskCtx, task) returns r
HandlerReturns(d, r) ==
    /\ disp[d].pc = "handle"
    /\ disp' = [disp EXCEPT ![d].pc = "status", ![d].err = r]
    /\ UNCHANGED <<handlers, runningTasks, heap, published, canc, memory, evars, bvars, fvars>>

\* the goroutine: task.Status (and task.Error) from the handler's result
CompletedTaskRequeue(task, err) ==
    IF err # NilErr THEN [task EXCEPT !.Status = "pending", !.Error = err]
    ELSE [task EXCEPT !.Status = "completed"]
CompletedTask(task, err) ==
    IF err # NilErr THEN [task EXCEPT !.Status = "failed", !.Error = err]
    ELSE [task EXCEPT !.Status = "completed"]

CompleteStatus(d) ==
    /\ disp[d].pc = "status"
    /\ heap' = [heap EXCEPT ![disp[d].task] = CompletedTask(@, disp[d].err)]
    /\ disp' = [disp EXCEPT ![d].pc = "notify"]
    /\ UNCHANGED <<handlers, runningTasks, published, canc, memory, evars, bvars, fvars>>

\* the goroutine: Publish task.failed{task_id, error} or task.completed{task_id, result}
CompletePublish(d) ==
    /\ disp[d].pc = "notify"
    /\ published' =
          IF disp[d].err # NilErr
          THEN Publish(published, "task.failed",
                       [task_id |-> TaskID(disp[d].task), error |-> disp[d].err], <<"dispatch", d>>)
          ELSE Publish(published, "task.completed",
                       [task_id |-> TaskID(disp[d].task), result |-> TaskResult(disp[d].task)],
                       <<"dispatch", d>>)
    /\ disp' = [disp EXCEPT ![d].pc = "persist"]
    /\ UNCHANGED <<handlers, runningTasks, heap, canc, memory, evars, bvars, fvars>>

\* the goroutine: e.memory.Store(ctx, "task:"+task.ID, task)
CompleteStore(d) ==
    /\ disp[d].pc = "persist"
    /\ memory' = Store(memory, TaskKey(TaskID(disp[d].task)), disp[d].task, storeFails)
    /\ disp' = [disp EXCEPT ![d].pc = "delete"]
    /\ UNCHANGED <<handlers, runningTasks, heap, published, canc, evars, bvars, fvars>>

\* the goroutine's deferred delete(e.runningTasks, task.ID)
CompleteDelete(d) ==
    /\ disp[d].pc = "delete"
    /\ runningTasks' = MapDelete(runningTasks, TaskID(disp[d].task))
    /\ disp' = [disp EXCEPT ![d].pc = "done"]
    /\ UNCHANGED <<handlers, heap, published, canc, memory, evars, bvars, fvars>>

\* CancelTask: `cancel, exists := e.runningTasks[taskID]`
InFlightAlways(rt, taskID) == TRUE
InFlight(rt, taskID) == MapHas(rt, taskID)

\* the value read from e.runningTasks: a cancel function, or nil for a missing key
NoCancel == 0
CancelFunc(rt, taskID) == IF MapHas(rt, taskID) THEN rt[taskID] ELSE NoCancel

\* cancel(): the context of the dispatch that made the cancel function is done
CallCancel(ds, f) == [d \in DOMAIN ds |-> IF d = f THEN [ds[d] EXCEPT !.ctxDone = TRUE] ELSE ds[d]]

\* CancelTask: look the cancel function up; not found: error; found: cancel()
CancelLookup(c, taskID) ==
    /\ canc[c].pc = "idle"
    /\ IF c = 1 THEN TRUE ELSE canc[c - 1].pc # "idle"
    /\ IF InFlight(runningTasks, taskID)
       THEN /\ canc' = [canc EXCEPT ![c] = [IdleCancel EXCEPT !.pc = "retrieve", !.id = taskID,
                                                                !.cancel = CancelFunc(runningTasks, taskID)]]
            /\ disp' = CallCancel(disp, CancelFunc(runningTasks, taskID))
       ELSE /\ canc' = [canc EXCEPT ![c] = [IdleCancel EXCEPT !.pc = "return not running", !.id = taskID]]
            /\ UNCHANGED disp
    /\ UNCHANGED <<handlers, runningTasks, heap, published, memory, evars, bvars, fvars>>

\* CancelTask: e.memory.Retrieve(ctx, "task:"+taskID)
CancelRetrieve(c) ==
    /\ canc[c].pc = "retrieve"
    /\ canc' = IF MemHas(memory, TaskKey(canc[c].id))
               THEN [canc EXCEPT ![c].pc = "mark", ![c].task = memory[TaskKey(canc[c].id)]]
               ELSE [canc EXCEPT ![c].pc = "return retrieve failed"]
    /\ UNCHANGED <<handlers, runningTasks, heap, published, disp, memory, evars, bvars, fvars>>

\* CancelTask: task.Status = interfaces.TaskStatusCancelled
CancelMark(c) ==
    /\ canc[c].pc = "mark"
    /\ heap' = [heap EXCEPT ![canc[c].task].Status = "cancelled"]
    /\ canc' = [canc EXCEPT ![c].pc = "store"]
    /\ UNCHANGED <<handlers, runningTasks, published, disp, memory, evars, bvars, fvars>>

\* CancelTask: e.memory.Store(ctx, "task:"+taskID, task)
CancelStore(c) ==
    /\ canc[c].pc = "store"
    /\ memory' = Store(memory, TaskKey(canc[c].id), canc[c].task, storeFails)
    /\ canc' = [canc EXCEPT ![c].pc = "publish"]
    /\ UNCHANGED <<handlers, runningTasks, heap, published, disp, evars, bvars, fvars>>

\* CancelTask: Publish task.cancelled{task_id}; return nil
CancelPublish(c) ==
    /\ canc[c].pc = "publish"
    /\ published' = Publish(published, "task.cancelled", [task_id |-> canc[c].id], <<"cancel", c>>)
    /\ canc' = [canc EXCEPT ![c].pc = "return nil"]
    /\ UNCHANGED <<handlers, runningTasks, heap, disp, memory, evars, bvars, fvars>>

(***************************************************************************)
(* Event bus (pkg/eventbus/eventbus.go).                                   *)
(***************************************************************************)
Topics == {"t1", "t2"}
\* the threads that call Publish
Publishers == {"p1"}

\* ch := make(chan interface{}, 10)
QueueCap == 10

\* the zero value of a channel variable
NilChan == 0

\* a channel of the bus: its buffer and whether it is closed; topic and ctx are the
\* arguments of the Subscribe call that made it, auto is the goroutine that waits for
\* ctx.Done(); closes counts the close(ch) calls
NewChan(topic) ==
    [topic |-> topic, buf |-> << >>, closed |-> FALSE, ctx |-> "live", auto |-> "waiting", closes |-> 0]

\* locals of a Publish call: n is the number of the call, which is also its payload;
\* arr and len are the slice read under RLock, i the loop index; snap records the
\* channels of the slice as read, delivered the channels the payload was enqueued to,
\* in order, and skipped the channels found full
IdlePublish ==
    [pc |-> "idle", topic |-> None, n |-> 0, arr |-> 0, len |-> 0, i |-> 0,
     snap |-> << >>, delivered |-> << >>, skipped |-> {}]

\* NewInMemoryEventBus
BusInit ==
    /\ bsubs = EmptyMap
    /\ barrays = << >>
    /\ bchans = << >>
    /\ bpub = [p \in Publishers |-> IdlePublish]
    /\ bcalls = << >>
    /\ unsubs = << >>
    /\ nrecv = 0

\* the payloads of QueueCap - 1 earlier Publish calls
Backlog == [i \in 1..(QueueCap - 1) |-> i - QueueCap]

\* the bus after Subscribe(t1) and QueueCap - 1 Publish calls on t1 that the subscriber
\* has not taken yet
BusBacklog ==
    /\ bsubs = MapSet(EmptyMap, "t1", [arr |-> 1, len |-> 1])
    /\ barrays = << <<1>> >>
    /\ bchans = << [NewChan("t1") EXCEPT !.buf = Backlog] >>
    /\ bpub = [p \in Publishers |-> IdlePublish]
    /\ bcalls = << >>
    /\ unsubs = << >>
    /\ nrecv = 0

\* the elements of the slice sl, read from its backing array
SliceElems(arrs, sl) == [i \in 1..sl.len |-> arrs[sl.arr][i]]

\* e.subscribers[topic], a nil slice when the topic is absent
NilSlice == [arr |-> 0, len |-> 0]
TopicSlice(subs, topic) == IF MapHas(subs, topic) THEN subs[topic] ELSE NilSlice

\* the capacity of a slice
SliceCap(arrs, sl) == IF sl.arr = 0 THEN 0 ELSE Len(arrs[sl.arr])

\* append(slice, ch): in place when the capacity allows, else into a new array of
\* twice the capacity (one for an empty slice)
GrownCap(c) == IF c = 0 THEN 1 ELSE 2 * c
AppendArrays(arrs, sl, ch) ==
    IF sl.len < SliceCap(arrs, sl)
    THEN [arrs EXCEPT ![sl.arr][sl.len + 1] = ch]
    ELSE Append(arrs, [i \in 1..GrownCap(SliceCap(arrs, sl)) |->
                          IF i <= sl.len THEN arrs[sl.arr][i]
                          ELSE IF i = sl.len + 1 THEN ch ELSE NilChan])
AppendSlice(arrs, sl) ==
    IF sl.len < SliceCap(arrs, sl)
    THEN [arr |-> sl.arr, len |-> sl.len + 1]
    ELSE [arr |-> Len(arrs) + 1, len |-> sl.len + 1]

\* Subscribe holds e.mutex from entry to return, so it is one step
BusSubscribe(topic) ==
    /\ Len(bchans) < MaxBusSubs
    /\ LET ch == Len(bchans) + 1
           sl == TopicSlice(bsubs, topic)
       IN  /\ bchans' = Append(bchans, NewChan(topic))
           /\ barrays' = AppendArrays(barrays, sl, ch)
           /\ bsubs' = MapSet(bsubs, topic, AppendSlice(barrays, sl))
    /\ UNCHANGED <<bpub, bcalls, unsubs, nrecv, evars, xvars, fvars, memory>>

\* the index of ch in the slice, 0 when it is not there
IndexOf(arrs, sl, ch) ==
    IF \E i \in 1..sl.len : arrs[sl.arr][i] = ch
    THEN CHOOSE i \in 1..sl.len : arrs[sl.arr][i] = ch /\ \A j \in 1..(i - 1) : arrs[sl.arr][j] # ch
    ELSE 0

\* append(subscribers[:i], subscribers[i+1:]...): the elements after i move down one
\* place in the same backing array, whose last used place keeps its old value
RemoveKeep(arrs, sl, i) == arrs
RemoveAt(arrs, sl, i) ==
    [arrs EXCEPT ![sl.arr] = [j \in 1..Len(@) |-> IF j >= i /\ j < sl.len THEN @[j + 1] ELSE @[j]]]

\* Unsubscribe(ctx, topic, ch): the place of ch in the slice of its topic, 0 when
\* the topic or the channel is not found
FoundAt(subs, arrs, topic, ch) ==
    IF MapHas(subs, topic) THEN IndexOf(arrs, subs[topic], ch) ELSE 0

\* Unsubscribe: the backing arrays, the subscriber map and the channels it leaves
UnsubscribeArrays(subs, arrs, topic, ch) ==
    IF FoundAt(subs, arrs, topic, ch) = 0 THEN arrs
    ELSE RemoveAt(arrs, subs[topic], FoundAt(subs, arrs, topic, ch))

UnsubscribeSubs(subs, arrs, topic, ch) ==
    IF ~MapHas(subs, topic) THEN subs
    ELSE LET n == IF FoundAt(subs, arrs, topic, ch) = 0 THEN subs[topic].len ELSE subs[topic].len - 1
         IN  IF n = 0 THEN MapDelete(subs, topic) ELSE [subs EXCEPT ![topic].len = n]

\* close(subscriber)
UnsubscribeChans(subs, arrs, chs, topic, ch) ==
    IF FoundAt(subs, arrs, topic, ch) = 0 THEN chs
    ELSE [chs EXCEPT ![ch].closed = TRUE, ![ch].closes = @ + 1]

\* an explicit Unsubscribe(ctx, topic, ch) with the handle and topic of a Subscribe
\* call; it holds e.mutex from entry to return, so it is one step
BusUnsubscribe(ch) ==
    /\ ch \in DOMAIN bchans
    /\ Len(unsubs) < MaxUnsub
    /\ unsubs' = Append(unsubs, ch)
    /\ barrays' = UnsubscribeArrays(bsubs, barrays, bchans[ch].topic, ch)
    /\ bsubs' = UnsubscribeSubs(bsubs, barrays, bchans[ch].topic, ch)
    /\ bchans' = UnsubscribeChans(bsubs, barrays, bchans, bchans[ch].topic, ch)
    /\ UNCHANGED <<bpub, bcalls, nrecv, evars, xvars, fvars, memory>>

\* the context given to Subscribe is cancelled
BusCancelContext(ch) ==
    /\ ch \in DOMAIN bchans
    /\ bchans[ch].ctx = "live"
    /\ bchans' = [bchans EXCEPT ![ch].ctx = "cancelled"]
    /\ UNCHANGED <<bsubs, barrays, bpub, bcalls, unsubs, nrecv, evars, xvars, fvars, memory>>

\* the goroutine of Subscribe: <-ctx.Done(); e.Unsubscribe(ctx, topic, ch)
BusAutoUnsubscribe(ch) ==
    /\ ch \in DOMAIN bchans
    /\ bchans[ch].ctx = "cancelled"
    /\ bchans[ch].auto = "waiting"
    /\ barrays' = UnsubscribeArrays(bsubs, barrays, bchans[ch].topic, ch)
    /\ bsubs' = UnsubscribeSubs(bsubs, barrays, bchans[ch].topic, ch)
    /\ bchans' = [UnsubscribeChans(bsubs, barrays, bchans, bchans[ch].topic, ch) EXCEPT ![ch].auto = "done"]
    /\ UNCHANGED <<bpub, bcalls, unsubs, nrecv, evars, xvars, fvars, memory>>

\* Publish, lines 27-34: read the slice of the topic under RLock; no topic: return nil
BusTopicExistsAlways(subs, topic) == TRUE
BusTopicExists(subs, topic) == MapHas(subs, topic)

BusPublishRead(p, topic) ==
    /\ bpub[p].pc \in {"idle", "return nil"}
    /\ Len(bcalls) < MaxPublish
    /\ bcalls' = Append(bcalls, [topic |-> topic, hit |-> MapHas(bsubs, topic)])
    /\ LET sl == TopicSlice(bsubs, topic) IN
       bpub' = [bpub EXCEPT ![p] =
                   [IdlePublish EXCEPT
                       !.pc = IF BusTopicExists(bsubs, topic) THEN "send" ELSE "return nil",
                       !.topic = topic, !.n = Len(bcalls) + 1,
                       !.arr = sl.arr, !.len = sl.len, !.i = 1,
                       !.snap = SliceElems(barrays, sl)]]
    /\ UNCHANGED <<bsubs, barrays, bchans, unsubs, nrecv, evars, xvars, fvars, memory>>

\* select { case ch <- data: ... default: }: enqueue unless the buffer is full
SendNoLimit(buf, data) == Append(buf, data)
Send(buf, data) == IF Len(buf) < QueueCap THEN Append(buf, data) ELSE buf

\* Publish, lines 42-53: one turn of the loop over the slice read before; the
\* element is read from the backing array now; a send on a closed channel panics.
\* The context of the Publish call is not cancelled, so `case <-ctx.Done()` is
\* never ready.
BusPublishSend(p) ==
    /\ bpub[p].pc = "send"
    /\ LET a == bpub[p]
           ch == barrays[a.arr][a.i]
           next == IF a.i < a.len THEN "send" ELSE "return nil"
       IN  IF a.i > a.len
           THEN /\ bpub' = [bpub EXCEPT ![p].pc = "return nil"]
                /\ UNCHANGED bchans
           ELSE IF bchans[ch].closed
           THEN /\ bpub' = [bpub EXCEPT ![p].pc = "panic"]
                /\ UNCHANGED bchans
           ELSE /\ bchans' = [bchans EXCEPT ![ch].buf = Send(@, a.n)]
                /\ bpub' = [bpub EXCEPT ![p].pc = next, ![p].i = a.i + 1,
                                        ![p].delivered = IF Send(bchans[ch].buf, a.n) # bchans[ch].buf
                                                         THEN Append(@, ch) ELSE @,
                                        ![p].skipped = IF Send(bchans[ch].buf, a.n) = bchans[ch].buf
                                                       THEN @ \cup {ch} ELSE @]
    /\ UNCHANGED <<bsubs, barrays, bcalls, unsubs, nrecv, evars, xvars, fvars, memory>>

\* the subscriber takes the oldest notification from its channel
BusReceive(ch) ==
    /\ ch \in DOMAIN bchans
    /\ nrecv < MaxRecv
    /\ Len(bchans[ch].buf) > 0
    /\ nrecv' = nrecv + 1
    /\ bchans' = [bchans EXCEPT ![ch].buf = Tail(@)]
    /\ UNCHANGED <<bsubs, barrays, bpub, bcalls, unsubs, evars, xvars, fvars, memory>>

BusNext ==
    \/ \E t \in Topics : BusSubscribe(t)
    \/ \E ch \in 1..MaxBusSubs : BusUnsubscribe(ch)
    \/ \E ch \in 1..MaxBusSubs : BusCancelContext(ch)
    \/ \E ch \in 1..MaxBusSubs : BusAutoUnsubscribe(ch)
    \/ \E p \in Publishers, t \in Topics : BusPublishRead(p, t)
    \/ \E p \in Publishers : BusPublishSend(p)
    \/ \E ch \in 1..MaxBusSubs : BusReceive(ch)

ExecNext ==
    \/ \E t \in TaskTypes : RegisterHandler(t)
    \/ \E d \in Dispatches, o \in Tasks : ExecuteLookup(d, o)
    \/ \E d \in Dispatches : ExecuteMark(d)
    \/ \E d \in Dispatches : ExecuteStore(d)
    \/ \E d \in Dispatches : ExecutePublish(d)
    \/ \E d \in Dispatches : ExecuteRegister(d)
    \/ \E d \in Dispatches, r \in HandlerResults : HandlerReturns(d, r)
    \/ \E d \in Dispatches : CompleteStatus(d)
    \/ \E d \in Dispatches : CompletePublish(d)
    \/ \E d \in Dispatches : CompleteStore(d)
    \/ \E d \in Dispatches : CompleteDelete(d)
    \/ \E c \in Cancels, id \in TaskIDs : CancelLookup(c, id)
    \/ \E c \in Cancels : CancelRetrieve(c)
    \/ \E c \in Cancels : CancelMark(c)
    \/ \E c \in Cancels : CancelStore(c)
    \/ \E c \in Cancels : CancelPublish(c)

EngineNext ==
    \/ \E w \in WorkflowIDs, l \in StateLists : CreateWorkflow(w, l)
    \/ \E w \in WorkflowIDs, f \in StateNames, t \in StateNames, ev \in Events : AddTransition(w, f, t, ev)
    \/ \E p \in Callers, w \in WorkflowIDs, ev \in Events, d \in Payloads : TriggerLock(p, w, ev, d)
    \/ \E p \in Callers : TriggerRead(p)
    \/ \E p \in Callers : TriggerUpdate(p)
    \/ \E p \in Callers : TriggerUnlock(p)
    \/ \E w \in WorkflowIDs : EngineSubscribe(w)
    \/ \E c \in 1..MaxSubs : EngineReceive(c)
    \/ \E c \in 1..MaxSubs : EngineCancelContext(c)
    \/ \E c \in 1..MaxSubs : EngineUnsubscribe(c)

\* the plan of the ExecuteGoal call and the workflow ExecuteGoal makes for it
PlanID == "p1"
PlanWorkflowID == "plan:p1"
PlanKey(planID) == <<"plan", planID>>

\* the keys the core and the framework use
MemoryKeys ==
    {WorkflowKey(w) : w \in WorkflowIDs \cup {PlanWorkflowID}} \cup {TaskKey(t) : t \in TaskIDs}
        \cup {PlanKey(PlanID)}

\* NewInMemoryStore: no key is present
MemInit == memory = [k \in MemoryKeys |-> None]

\* the ExecuteGoal call, the Start and the Stop calls when none is in progress
IdleGoal == [pc |-> "idle", plan |-> << >>]
IdleCall == [pc |-> "idle", n |-> 0, base |-> 0]

\* NewFramework: isRunning: false (line 88); no call has been made
FrameworkInit ==
    /\ isRunning = FALSE
    /\ goal = IdleGoal
    /\ ppc = "none"
    /\ start = IdleCall
    /\ stop = IdleCall

\* no workflow has been handed out; InMemoryStore.Store returns nil
EnvInit ==
    /\ copies = << >>
    /\ nmut = 0
    /\ storeFails = FALSE
    /\ FrameworkInit

Init == EngineInit /\ ExecInit /\ BusInit /\ MemInit /\ EnvInit

vars == <<evars, xvars, bvars, fvars, memory>>

SpecEngine == Init /\ [][EngineNext]_vars

SpecExec == Init /\ [][ExecNext]_vars

\* the bus as constructed, or with a backlog in the queue of one subscriber
InitBus == EngineInit /\ ExecInit /\ MemInit /\ EnvInit /\ (BusInit \/ BusBacklog)

SpecBus == InitBus /\ [][BusNext]_vars

\* the subscription life cycle of the engine for one workflow and one event
RetireEngineNext ==
    \/ CreateWorkflow("wf1", <<"pending", "running">>)
    \/ \E f \in {"pending", "running"}, t \in {"pending", "running"} : AddTransition("wf1", f, t, "go")
    \/ \E p \in Callers : TriggerLock(p, "wf1", "go", NilData)
    \/ \E p \in Callers : TriggerRead(p)
    \/ \E p \in Callers : TriggerUpdate(p)
    \/ \E p \in Callers : TriggerUnlock(p)
    \/ EngineSubscribe("wf1")
    \/ \E c \in 1..MaxSubs : EngineReceive(c)
    \/ \E c \in 1..MaxSubs : EngineCancelContext(c)
    \/ \E c \in 1..MaxSubs : EngineUnsubscribe(c)

\* the bus and the engine share no state: a behaviour exercises one of the two
RetireNext ==
    \/ EngineInit /\ BusNext
    \/ BusInit /\ RetireEngineNext

\* the goroutines that Subscribe starts run once their context is cancelled;
\* unsubscribe of the engine waits for e.mutex, which a waiter gets in the end, and a
\* thread inside TriggerEvent runs on to its Unlock
SpecRetire ==
    /\ Init /\ [][RetireNext]_vars
    /\ \A ch \in 1..MaxBusSubs : WF_vars(BusAutoUnsubscribe(ch))
    /\ \A c \in 1..MaxSubs : SF_vars(EngineUnsubscribe(c))
    /\ WF_vars(\E p \in Callers : TriggerRead(p) \/ TriggerUpdate(p) \/ TriggerUnlock(p))

\* the engine and a caller that writes to the workflow GetWorkflow gave it; every
\* workflow is created once, so a copy and the workflow under its identifier share
\* their slice and maps for the whole behaviour
CopyNext ==
    \/ \E w \in WorkflowIDs, l \in StateLists : ~MapHas(workflows, w) /\ CreateWorkflow(w, l)
    \/ \E w \in WorkflowIDs, t \in {"pending", "running"} : AddTransition(w, "pending", t, "go")
    \/ \E p \in Callers, w \in WorkflowIDs : TriggerLock(p, w, "go", [k1 |-> 1])
    \/ \E p \in Callers : TriggerRead(p)
    \/ \E p \in Callers : TriggerUpdate(p)
    \/ \E p \in Callers : TriggerUnlock(p)
    \/ \E w \in WorkflowIDs : GetWorkflow(w)
    \/ \E c \in 1..MaxCopies : CallerSetCurrentState(c, "done")
    \/ \E c \in 1..MaxCopies, i \in 1..2 : CallerSetState(c, i, "done")
    \/ \E c \in 1..MaxCopies, t \in {"running", "done"} : CallerSetTransition(c, "pending", "go", t)
    \/ \E c \in 1..MaxCopies : CallerSetData(c, [k1 |-> 2])

SpecCopy == Init /\ [][CopyNext]_vars

\* the store behind the MemoryStore interface starts or stops answering Store with
\* an error
StoreFault ==
    /\ storeFails' = ~storeFails
    /\ UNCHANGED <<evars, xvars, bvars, copies, nmut, wvars, memory>>

\* the calls of the engine that store a workflow, for one workflow
StoringEngineNext ==
    \/ \E l \in StateLists : CreateWorkflow("wf1", l)
    \/ \E f \in {"pending", "running"}, t \in {"pending", "running"} : AddTransition("wf1", f, t, "go")
    \/ \E p \in Callers, d \in {NilData, [k1 |-> 1]} : TriggerLock(p, "wf1", "go", d)
    \/ \E p \in Callers : TriggerRead(p)
    \/ \E p \in Callers : TriggerUpdate(p)
    \/ \E p \in Callers : TriggerUnlock(p)

\* the executor or the engine over a store that may fail: the two share only the
\* store, under different keys, so a behaviour exercises one of the two
StoreFailNext ==
    \/ StoreFault
    \/ EngineInit /\ ExecNext
    \/ ExecInit /\ StoringEngineNext

SpecStoreFail == Init /\ [][StoreFailNext]_vars

\* the notifications of ChanCap - 1 TriggerEvent(wf1, go, nil) calls that took a
\* workflow to and fro between pending and running
EngineBacklogQueue ==
    [i \in 1..(ChanCap - 1) |->
        [From   |-> IF i % 2 = 1 THEN "pending" ELSE "running",
         To     |-> IF i % 2 = 1 THEN "running" ELSE "pending",
         Event  |-> "go", TaskID |-> "wf1", Data |-> NilData]]

\* the engine after CreateWorkflow(wf1, [pending, running]), CreateWorkflow(wf2,
\* [pending]), AddTransition(wf1, pending, running, go), AddTransition(wf1, running,
\* pending, go), Subscribe(wf1), ChanCap - 1 calls of TriggerEvent(wf1, go, nil) that
\* the subscriber has not taken yet, Subscribe(wf1) and Subscribe(wf2); the counters
\* count the calls made from here on
EngineBacklog ==
    /\ workflows =
          MapSet(MapSet(EmptyMap, "wf2", NewWorkflow("wf2", <<"pending">>)), "wf1",
                 [ApplyTransition(
                     SetTransition(SetTransition(NewWorkflow("wf1", <<"pending", "running">>),
                                                 "pending", "go", "running"),
                                   "running", "go", "pending"),
                     [nextState |-> "running", data |-> NilData])
                  EXCEPT !.Data = EmptyMap])
    /\ subscribers = MapSet(MapSet(EmptyMap, "wf1", <<1, 2>>), "wf2", <<3>>)
    /\ chans = <<EngineBacklogQueue, << >>, << >> >>
    /\ ectx = <<NewContext("wf1"), NewContext("wf1"), NewContext("wf2")>>
    /\ emutex = NoHolder
    /\ tpc = [p \in Callers |-> "idle"]
    /\ targ = [p \in Callers |-> IdleArgs]
    /\ ntrigger = 0
    /\ nadd = 0
    /\ eret = None

\* the store after the calls that lead to EngineBacklog
MemBacklog ==
    memory = [k \in MemoryKeys |-> IF k \in {WorkflowKey(w) : w \in WorkflowIDs} THEN k[2] ELSE None]

\* the engine with its three subscribers: further calls on both workflows; the first
\* subscriber is the one that takes notifications, the second the one that leaves
NotifyNext ==
    \/ \E w \in WorkflowIDs, t \in {"pending", "running"}, ev \in Events : AddTransition(w, "pending", t, ev)
    \/ \E p \in Callers, w \in WorkflowIDs, ev \in Events, d \in {NilData, [k1 |-> 1]} : TriggerLock(p, w, ev, d)
    \/ \E p \in Callers : TriggerRead(p)
    \/ \E p \in Callers : TriggerUpdate(p)
    \/ \E p \in Callers : TriggerUnlock(p)
    \/ EngineReceive(1)
    \/ EngineCancelContext(2)
    \/ EngineUnsubscribe(2)

\* the engine after two CreateWorkflow calls, three Subscribe calls and nine
\* notifications nobody has received from the first channel
InitNotify == EngineBacklog /\ ExecInit /\ BusInit /\ MemBacklog /\ EnvInit
SpecNotify == InitNotify /\ [][NotifyNext]_vars

(***************************************************************************)
(* Properties of the workflow engine.                                      *)
(***************************************************************************)
\* a transition is registered in the workflow table wfs for (current state of id, event)
Registered(wfs, id, event) ==
    /\ MapHas(wfs, id)
    /\ TransitionExists(wfs[id], wfs[id].CurrentState, event)

\* C1: a TriggerEvent(id, e) that is about to return returns nil if and only if a
\* transition was registered for (current state of id, e) when it was called; if it
\* returns nil the current state of id is the target registered for that pair, and if
\* it returns an error (unknown workflow, no such transition) the workflow table is
\* as the call found it.
C1_TriggerEventContract ==
    \A p \in Callers :
        tpc[p] \in TriggerReturns =>
            LET id == targ[p].id
                ev == targ[p].event
                before == targ[p].entry
            IN  /\ (tpc[p] = "return nil") <=> Registered(before, id, ev)
                /\ tpc[p] = "return nil" =>
                      /\ MapHas(workflows, id)
                      /\ workflows[id].CurrentState =
                             before[id].Transitions[before[id].CurrentState][ev]
                /\ tpc[p] # "return nil" => workflows = before

\* C1 witness: the scenario of the specification: after a successful trigger moved a
\* workflow off its initial state, a second TriggerEvent finds no transition and fails.
C1_Witness ==
    \E p \in Callers :
        /\ tpc[p] = "return no transition defined"
        /\ ntrigger = 2
        /\ workflows[targ[p].id].CurrentState # workflows[targ[p].id].States[1]

\* C2: TriggerEvent calls are atomic with respect to each other: at most one call is
\* between its Lock and its Unlock; a call that has decided on a transition still sees
\* the current state it read and the target it looked up; and a call that returns
\* leaves exactly the state that applying it alone to the state it found would leave.
C2_TriggerEventAtomic ==
    /\ \A p, q \in Callers : (tpc[p] # "idle" /\ tpc[q] # "idle") => p = q
    /\ \A p \in Callers :
          LET a == targ[p] IN
          /\ tpc[p] = "update" =>
                /\ Registered(workflows, a.id, a.event)
                /\ workflows[a.id].CurrentState = a.currentState
                /\ workflows[a.id].Transitions[a.currentState][a.event] = a.nextState
          /\ tpc[p] = "return nil" =>
                workflows = [a.entry EXCEPT ![a.id] =
                    [@ EXCEPT !.CurrentState = a.entry[a.id].Transitions[@][a.event],
                              !.Data = MergeData(@, a.data)]]
          /\ tpc[p] \in TriggerReturns \ {"return nil"} => workflows = a.entry

\* C2 witness: a second TriggerEvent on a workflow has applied its transition after
\* an earlier one on the same workflow succeeded.
C2_Witness ==
    \E p \in Callers :
        /\ tpc[p] = "return nil"
        /\ ntrigger = 2
        /\ MapHas(targ[p].entry, targ[p].id)
        /\ targ[p].entry[targ[p].id].CurrentState # targ[p].entry[targ[p].id].States[1]

\* C3: the current state of every workflow is one of its declared states, and so is
\* the target of every transition in its table.
C3_StatesDeclared ==
    \A id \in DOMAIN workflows :
        LET wf == workflows[id] IN
        /\ wf.CurrentState \in SeqToSet(wf.States)
        /\ \A from \in DOMAIN wf.Transitions : \A ev \in DOMAIN wf.Transitions[from] :
              /\ from \in SeqToSet(wf.States)
              /\ wf.Transitions[from][ev] \in SeqToSet(wf.States)

\* C3 witness: a workflow with two registered transitions that a trigger has moved
\* off its initial state.
C3_Witness ==
    \E id \in DOMAIN workflows :
        /\ workflows[id].CurrentState # workflows[id].States[1]
        /\ nadd = 2
        /\ \E from \in DOMAIN workflows[id].Transitions : workflows[id].Transitions[from] # EmptyMap

(***************************************************************************)
(* Properties of the task executor.                                        *)
(***************************************************************************)
\* what GetTaskStatus reads: the task stored under task:<id>
Persisted(id) == heap[memory[TaskKey(id)]]

\* the positions of a dispatch whose handler has been started
HandlerStarted == {"handle", "status", "notify", "persist", "delete", "done"}
\* the positions of a dispatch, and of a CancelTask call, that is not in progress
DispatchAtRest == {"idle", "done", "return no handler"}
CancelReturns == {"return nil", "return not running", "return retrieve failed"}
CancelAtRest == {"idle"} \cup CancelReturns

\* no ExecuteTask, completion path or CancelTask is in progress
Settled ==
    /\ \A d \in Dispatches : disp[d].pc \in DispatchAtRest
    /\ \A c \in Cancels : canc[c].pc \in CancelAtRest

\* d is the only ExecuteTask call made for its task identifier
OnlyDispatch(d) ==
    \A e \in Dispatches \ {d} :
        disp[e].pc = "idle" \/ TaskID(disp[e].task) # TaskID(disp[d].task)

\* C4: when a task was dispatched once, its handler returned nil and nothing is in
\* progress any more, the status persisted under task:<id> is completed.
C4_NilHandlerCompleted ==
    \A d \in Dispatches :
        (Settled /\ disp[d].pc = "done" /\ disp[d].err = NilErr /\ OnlyDispatch(d))
            => Persisted(TaskID(disp[d].task)).Status = "completed"

\* the status persisted under task:<id>, or None when there is no snapshot
PersistedStatus(mem, hp, id) ==
    IF MemHas(mem, TaskKey(id)) THEN hp[mem[TaskKey(id)]].Status ELSE None

\* the number of ExecuteTask calls made for task identifier id
DispatchCount(ds, id) ==
    Cardinality({d \in Dispatches : ds[d].pc # "idle" /\ TaskID(ds[d].task) = id})

\* C5 as claimed: no step changes the status persisted under a task identifier from
\* a terminal status back to running or pending.
C5_StatusNeverBackward ==
    [][\A id \in TaskIDs :
          PersistedStatus(memory, heap, id) \in Terminal
              => PersistedStatus(memory', heap', id) \notin {"running", "pending"}]_vars

\* C5 amended: for a task identifier that ExecuteTask was called for once, the
\* persisted status only moves forward: no step changes it from a terminal status to
\* running or pending, nor from running to pending.
C5_StatusForwardPerDispatch ==
    [][\A id \in TaskIDs :
          DispatchCount(disp', id) <= 1 =>
              /\ PersistedStatus(memory, heap, id) \in Terminal
                    => PersistedStatus(memory', heap', id) \notin {"running", "pending"}
              /\ PersistedStatus(memory, heap, id) = "running"
                    => PersistedStatus(memory', heap', id) # "pending"]_vars

\* C5 witness: a task dispatched once whose status went running, cancelled, failed.
C5_Witness ==
    \E d \in Dispatches, c \in Cancels :
        /\ OnlyDispatch(d)
        /\ disp[d].pc = "done"
        /\ canc[c].pc = "return nil"
        /\ canc[c].id = TaskID(disp[d].task)
        /\ Persisted(TaskID(disp[d].task)).Status = "failed"

\* C6: once the handler of a dispatch has been started, ExecuteTask has handed the
\* task to the store under task:<id>, and the task had status running at that Store.
C6_RunningPersistedFirst ==
    \A d \in Dispatches :
        disp[d].pc \in HandlerStarted =>
            /\ MemHas(memory, TaskKey(TaskID(disp[d].task)))
            /\ disp[d].stored = "running"

\* C7: an ExecuteTask call returns the no-handler error exactly when the type of its
\* task has no registered handler; that call changes no stored snapshot, no task, no
\* published event and no in-flight entry, and it never goes on to run a handler.
C7_NoHandlerNoChange ==
    [][\A d \in Dispatches :
          /\ (disp[d].pc = "idle" /\ disp'[d].pc # "idle") =>
                IF TaskType(disp'[d].task) \in handlers
                THEN disp'[d].pc = "mark"
                ELSE /\ disp'[d].pc = "return no handler"
                     /\ UNCHANGED <<memory, heap, published, runningTasks, handlers>>
          /\ disp[d].pc = "return no handler" => disp'[d] = disp[d]]_vars

\* C7 witness: a call has returned the no-handler error for a task that is still
\* pending and has no snapshot, while another type has a handler.
C7_Witness ==
    \E d \in Dispatches :
        /\ disp[d].pc = "return no handler"
        /\ handlers # {}
        /\ heap[disp[d].task].Status = "pending"
        /\ ~MemHas(memory, TaskKey(TaskID(disp[d].task)))

\* C8: when a task was dispatched once, its handler returned the error E and nothing
\* is in progress any more, the persisted status is failed and the stored error is E.
C8_ErrorHandlerFailed ==
    \A d \in Dispatches :
        (Settled /\ disp[d].pc = "done" /\ disp[d].err # NilErr /\ OnlyDispatch(d))
            => /\ Persisted(TaskID(disp[d].task)).Status = "failed"
               /\ Persisted(TaskID(disp[d].task)).Error = disp[d].err

\* C9: when a CancelTask call for a task that was dispatched once returns nil, the
\* context of the dispatch it found in the registry is cancelled, the persisted status
\* of the task is cancelled and its task.cancelled notification has been published.
C9_CancelledOnReturn ==
    \A c \in Cancels :
        (canc[c].pc = "return nil" /\ DispatchCount(disp, canc[c].id) = 1) =>
            /\ disp[canc[c].cancel].ctxDone
            /\ Persisted(canc[c].id).Status = "cancelled"
            /\ \E ev \in published : ev.topic = "task.cancelled" /\ ev.payload.task_id = canc[c].id

\* C10: a CancelTask call returns the not-running error exactly when its task
\* identifier is not in the in-flight registry; that call changes no stored snapshot,
\* no task, no context and no in-flight entry and publishes nothing, and it does
\* nothing afterwards.
C10_CancelNotRunning ==
    [][\A c \in Cancels :
          /\ (canc[c].pc = "idle" /\ canc'[c].pc # "idle") =>
                IF MapHas(runningTasks, canc'[c].id)
                THEN canc'[c].pc = "retrieve"
                ELSE /\ canc'[c].pc = "return not running"
                     /\ UNCHANGED <<memory, heap, published, runningTasks, disp>>
          /\ canc[c].pc = "return not running" => canc'[c] = canc[c]]_vars

\* C10 witness: CancelTask has failed with not running for a task whose handler has
\* finished and whose snapshot says completed.
C10_Witness ==
    \E c \in Cancels, d \in Dispatches :
        /\ canc[c].pc = "return not running"
        /\ disp[d].pc = "done"
        /\ TaskID(disp[d].task) = canc[c].id
        /\ Persisted(canc[c].id).Status = "completed"

(***************************************************************************)
(* Scheduling of the task executor.                                        *)
(***************************************************************************)
\* the statements of ExecuteTask itself, lines 59-81: none of them waits for a handler
ExecuteSteps ==
    \E d \in Dispatches : ExecuteMark(d) \/ ExecuteStore(d) \/ ExecutePublish(d) \/ ExecuteRegister(d)

\* the statements of the goroutine after handler.Handle has returned
CompleteSteps ==
    \E d \in Dispatches : CompleteStatus(d) \/ CompletePublish(d) \/ CompleteStore(d) \/ CompleteDelete(d)

\* the statements of CancelTask after its registry lookup
CancelSteps ==
    \E c \in Cancels : CancelRetrieve(c) \/ CancelMark(c) \/ CancelStore(c) \/ CancelPublish(c)

\* a thread inside ExecuteTask keeps running; handlers may run forever
SpecExecCalls == Init /\ [][ExecNext]_vars /\ WF_vars(ExecuteSteps)

\* ExecuteTask has returned nil to its caller: `go func() {...}()` has started the
\* goroutine and line 124 is reached without waiting for it
ExecuteReturnedAfterHandle(pc) == pc \in {"status", "notify", "persist", "delete", "done"}
ExecuteReturned(pc) == pc \in {"handle", "status", "notify", "persist", "delete", "done"}

\* C11: every ExecuteTask call that found a handler returns nil to its caller, also
\* when its own handler or the handlers of other dispatches never return.
C11_ExecuteNeverWaits ==
    \A d \in Dispatches : (disp[d].pc = "mark") ~> ExecuteReturned(disp[d].pc)

\* C11 witness: a second ExecuteTask, for another task, has returned while the
\* handler of the first dispatch is still running.
C11_Witness ==
    \E d, e \in Dispatches :
        /\ d < e
        /\ disp[d].pc = "handle"
        /\ disp[e].pc = "handle"
        /\ ExecuteReturned(disp[e].pc)
        /\ TaskID(disp[d].task) # TaskID(disp[e].task)

\* the dispatch whose completion path made the Publish call ev
PublishedBy(ev) == ev.by[2]

\* C12: whenever task.completed or task.failed has been published for a dispatch,
\* the completion path of that dispatch has already stored its final snapshot.
C12_PersistBeforePublish ==
    \A ev \in published :
        ev.topic \in {"task.completed", "task.failed"} =>
            disp[PublishedBy(ev)].pc \in {"delete", "done"}

\* GetRunningTasks: the keys of e.runningTasks
GetRunningTasks == DOMAIN runningTasks

\* C13: GetRunningTasks never lists a task, dispatched once, whose persisted status
\* is completed or failed.
C13_RunningNotTerminal ==
    \A id \in GetRunningTasks :
        DispatchCount(disp, id) = 1 => PersistedStatus(memory, heap, id) \notin {"completed", "failed"}

\* every started thread keeps running, and every handler returns
SpecExecFair ==
    /\ Init /\ [][ExecNext]_vars
    /\ WF_vars(ExecuteSteps)
    /\ WF_vars(\E d \in Dispatches, r \in HandlerResults : HandlerReturns(d, r))
    /\ WF_vars(CompleteSteps)
    /\ WF_vars(CancelSteps)

\* C14: when every started thread keeps running and every handler returns, from some
\* point on every task dispatched by a successful ExecuteTask has a terminal
\* persisted status and is absent from the in-flight registry, and GetRunningTasks
\* is empty.
C14_EventuallyTerminal ==
    <>[](\A d \in Dispatches :
            ExecuteReturned(disp[d].pc) =>
                /\ PersistedStatus(memory, heap, TaskID(disp[d].task)) \in Terminal
                /\ TaskID(disp[d].task) \notin GetRunningTasks
                /\ GetRunningTasks = {})

\* C14 witness: two dispatches of the same task identifier have run to their end, the
\* registry is empty and the persisted status is terminal.
C14_Witness ==
    /\ \A d \in Dispatches : disp[d].pc = "done" /\ TaskID(disp[d].task) = "ta"
    /\ GetRunningTasks = {}
    /\ PersistedStatus(memory, heap, "ta") \in Terminal

(***************************************************************************)
(* Properties of the event bus.                                            *)
(***************************************************************************)
\* the channels registered under a topic, in the order of e.subscribers[topic]
BusSubscribers(topic) == SliceElems(barrays, TopicSlice(bsubs, topic))

\* the number of places of sequence s that hold x
Count(s, x) == Cardinality({i \in 1..Len(s) : s[i] = x})

\* C15: when a Publish call returns nil, every channel that was subscribed to the
\* topic when the call read the subscriber list and is still subscribed has got the
\* payload exactly once, or was found full and has not got it.
C15_PublishExactlyOnce ==
    \A p \in Publishers :
        (bpub[p].pc = "return nil" /\ bcalls[bpub[p].n].hit) =>
            \A ch \in SeqToSet(bpub[p].snap) \cap SeqToSet(BusSubscribers(bpub[p].topic)) :
                Count(bpub[p].delivered, ch) = IF ch \in bpub[p].skipped THEN 0 ELSE 1

\* the payloads of the Publish calls of this behaviour are their positive numbers
Payload(n) == n > 0

\* C16: a Publish call for a topic that has no subscribers returns nil at once and
\* changes no subscriber list, no backing array and no channel; and no channel ever
\* holds the payload of a Publish call that found no subscribers, or of a call for
\* another topic.
C16_PublishNoSubscribers ==
    /\ [](\A ch \in DOMAIN bchans : \A i \in 1..Len(bchans[ch].buf) :
            LET n == bchans[ch].buf[i] IN
            Payload(n) => bcalls[n].hit /\ bcalls[n].topic = bchans[ch].topic)
    /\ [][\A p \in Publishers :
            (Len(bcalls') > Len(bcalls) /\ bpub'[p].n = Len(bcalls')) =>
                IF MapHas(bsubs, bpub'[p].topic)
                THEN bpub'[p].pc = "send"
                ELSE /\ bpub'[p].pc = "return nil"
                     /\ UNCHANGED <<bsubs, barrays, bchans>>]_vars

\* C16 witness: a Publish on a topic found no subscribers; a channel subscribed to
\* that topic afterwards holds only the payload of a later Publish.
C16_Witness ==
    \E n \in DOMAIN bcalls, m \in DOMAIN bcalls, ch \in DOMAIN bchans :
        /\ ~bcalls[n].hit
        /\ n < m
        /\ bcalls[n].topic = bchans[ch].topic
        /\ ch \in SeqToSet(BusSubscribers(bchans[ch].topic))
        /\ bchans[ch].buf = <<m>>

\* C17: no channel of the bus ever holds more than QueueCap payloads; every step
\* leaves a buffer as it is, appends one payload to a buffer that is not full, or
\* takes its oldest payload, so a Publish that finds the buffer full changes nothing.
C17_QueueBounded ==
    /\ [](\A ch \in DOMAIN bchans : Len(bchans[ch].buf) <= QueueCap)
    /\ [][\A ch \in DOMAIN bchans :
            \/ bchans'[ch].buf = bchans[ch].buf
            \/ /\ Len(bchans[ch].buf) < QueueCap
               /\ \E p \in Publishers : bchans'[ch].buf = Append(bchans[ch].buf, bpub[p].n)
            \/ /\ bchans[ch].buf # << >>
               /\ bchans'[ch].buf = Tail(bchans[ch].buf)]_vars

\* C17 witness: a Publish has returned after it found the queue of a subscriber
\* holding QueueCap payloads and skipped it; the queue still holds the backlog and
\* the payload of the Publish before, in order.
C17_Witness ==
    \E p \in Publishers, ch \in DOMAIN bchans :
        /\ bpub[p].pc = "return nil"
        /\ ch \in bpub[p].skipped
        /\ bchans[ch].buf = Append(Backlog, bpub[p].n - 1)

\* a subscription is retired: removed from the list of its topic or workflow, and closed
BusRetired(ch) ==
    /\ ch \in DOMAIN bchans
    /\ bchans[ch].closed
    /\ ch \notin SeqToSet(BusSubscribers(bchans[ch].topic))
EngineRetired(c) ==
    /\ c \in DOMAIN ectx
    /\ ectx[c].closed
    /\ ~Subscribed(subscribers, ectx[c].id, c)

\* C18: once the context given to a Subscribe call of the bus or of the engine is
\* cancelled, the subscription is eventually retired; a retired subscription stays
\* retired and nothing is enqueued to its channel any more.
C18_RetiredOnCancel ==
    /\ \A ch \in 1..MaxBusSubs :
          (ch \in DOMAIN bchans /\ bchans[ch].ctx = "cancelled") ~> BusRetired(ch)
    /\ \A c \in 1..MaxSubs :
          (c \in DOMAIN ectx /\ ectx[c].ctx = "cancelled") ~> EngineRetired(c)
    /\ [][/\ \A ch \in DOMAIN bchans :
               BusRetired(ch) =>
                   /\ bchans'[ch].closed
                   /\ ch \notin SeqToSet(SliceElems(barrays', TopicSlice(bsubs', bchans[ch].topic)))
                   /\ Len(bchans'[ch].buf) <= Len(bchans[ch].buf)
          /\ \A c \in DOMAIN ectx :
               EngineRetired(c) =>
                   /\ ectx'[c].closed
                   /\ ~Subscribed(subscribers', ectx[c].id, c)
                   /\ Len(chans'[c]) <= Len(chans[c])]_vars

\* C18 witness: the subscription of a workflow was retired after its context was
\* cancelled, and a TriggerEvent that took the lock afterwards has applied a
\* transition of that workflow without enqueuing it to the closed channel.
C18_Witness ==
    \E c \in DOMAIN ectx, p \in Callers :
        /\ EngineRetired(c)
        /\ ectx[c].auto = "done"
        /\ tpc[p] = "return nil"
        /\ targ[p].id = ectx[c].id
        /\ chans[c] = << >>

\* the Unsubscribe calls made for channel ch so far, explicit and automatic
UnsubscribeCalls(ch) == Count(unsubs, ch) + (IF bchans[ch].auto = "done" THEN 1 ELSE 0)

\* the sequence s without the element x
Without(s, x) == SelectSeq(s, LAMBDA y : y # x)

\* an Unsubscribe of channel ch, explicit or by the goroutine of its Subscribe, is
\* taken in this step
UnsubscribeStep(ch) ==
    \/ unsubs' = Append(unsubs, ch)
    \/ bchans[ch].auto = "waiting" /\ bchans'[ch].auto = "done"

\* C19: a channel is closed exactly once, by the first Unsubscribe of its handle,
\* which also removes it from the list of its topic; every further Unsubscribe of the
\* handle closes nothing and changes no subscriber list; no Unsubscribe changes
\* another channel or the order of the other subscribers.
C19_UnsubscribeIdempotent ==
    /\ [](\A ch \in DOMAIN bchans :
            /\ bchans[ch].closes <= 1
            /\ bchans[ch].closed <=> bchans[ch].closes = 1
            /\ UnsubscribeCalls(ch) > 0 => BusRetired(ch))
    /\ [][\A ch \in DOMAIN bchans :
            UnsubscribeStep(ch) =>
                /\ bchans'[ch].closes = 1
                /\ UnsubscribeCalls(ch) > 0 => bchans'[ch].buf = bchans[ch].buf /\ bsubs' = bsubs
                /\ \A t \in Topics :
                      SliceElems(barrays', TopicSlice(bsubs', t)) = Without(BusSubscribers(t), ch)
                /\ \A other \in DOMAIN bchans \ {ch} : bchans'[other] = bchans[other]]_vars

\* C19 witness: a handle was unsubscribed twice by its owner and once more by the
\* goroutine of its Subscribe, while another channel is still subscribed to the topic.
C19_Witness ==
    \E ch \in DOMAIN bchans, other \in DOMAIN bchans :
        /\ Count(unsubs, ch) = 2
        /\ bchans[ch].auto = "done"
        /\ bchans[ch].closes = 1
        /\ other # ch
        /\ bchans[other].topic = bchans[ch].topic
        /\ other \in SeqToSet(BusSubscribers(bchans[ch].topic))

\* C20: an AddTransition call returns an error exactly when the workflow does not
\* exist or from or to is not one of its declared states, and a call that returns an
\* error changes no workflow (no transition table, no current state), no snapshot and
\* no subscription.
C20_AddTransitionRejects ==
    [][nadd' # nadd =>
          \A w \in WorkflowIDs, f \in StateNames, t \in StateNames, ev \in Events :
              AddTransition(w, f, t, ev) =>
                  LET declared == IF MapHas(workflows, w) THEN SeqToSet(workflows[w].States) ELSE {}
                      bad == ~MapHas(workflows, w) \/ f \notin declared \/ t \notin declared
                  IN  /\ bad <=> eret' # NilErr
                      /\ bad => UNCHANGED <<workflows, memory, subscribers, chans>>]_vars

\* C20 witness: after a transition was registered for a workflow, an AddTransition
\* has just been rejected for its target state and the workflow still has the
\* registered transition.
C20_Witness ==
    /\ eret = "target state does not exist"
    /\ nadd = 2
    /\ \E id \in DOMAIN workflows : \E from \in DOMAIN workflows[id].Transitions :
          workflows[id].Transitions[from] # EmptyMap

\* the target registered in workflow wf for (from, event), None when there is none
Target(wf, from, event) ==
    IF TransitionExists(wf, from, event) THEN wf.Transitions[from][event] ELSE None

\* C21: an AddTransition(id, from, to, event) call that returns nil leaves to as the
\* target of (from, event), whatever was registered for that pair before; it changes
\* no other mapping, neither the current state, the declared states nor the data bag
\* of the workflow, and no other workflow.
C21_AddTransitionFrame ==
    [][(nadd' # nadd /\ eret' = NilErr) =>
          \A w \in WorkflowIDs, f \in StateNames, t \in StateNames, ev \in Events :
              AddTransition(w, f, t, ev) =>
                  /\ Target(workflows'[w], f, ev) = t
                  /\ \A from \in StateNames, e \in Events :
                        <<from, e>> # <<f, ev>> =>
                            Target(workflows'[w], from, e) = Target(workflows[w], from, e)
                  /\ DOMAIN workflows'[w].Transitions = DOMAIN workflows[w].Transitions
                  /\ workflows'[w].CurrentState = workflows[w].CurrentState
                  /\ workflows'[w].States = workflows[w].States
                  /\ workflows'[w].Data = workflows[w].Data
                  /\ DOMAIN workflows' = DOMAIN workflows
                  /\ \A id \in DOMAIN workflows \ {w} : workflows'[id] = workflows[id]]_vars

\* C21 witness: a workflow that a trigger moved from pending to running, merging its
\* payload, has just had the target of the transition it took replaced: the only
\* mapping of its table now leads from pending to pending.
C21_Witness ==
    /\ eret = NilErr
    /\ nadd = 2
    /\ \E id \in DOMAIN workflows :
          /\ workflows[id].States = <<"pending", "running">>
          /\ workflows[id].CurrentState = "running"
          /\ workflows[id].Data # EmptyMap
          /\ workflows[id].Transitions["running"] = EmptyMap
          /\ \E ev \in Events : workflows[id].Transitions["pending"] = MapSet(EmptyMap, ev, "pending")

\* C22: a CreateWorkflow call with an empty state list returns an error and changes
\* no workflow, no snapshot and no subscription; a call with a non-empty list returns
\* nil and leaves, under its identifier, a workflow whose current state is states[0],
\* whose table holds no transition and whose data bag is empty, with its snapshot
\* stored under workflow:<id>.
C22_CreateWorkflowContract ==
    [][(eret' # None /\ nadd' = nadd) =>
          \A w \in WorkflowIDs, l \in StateLists :
              CreateWorkflow(w, l) =>
                  IF Len(l) = 0
                  THEN /\ eret' # NilErr
                       /\ UNCHANGED <<workflows, memory, subscribers, chans>>
                  ELSE /\ eret' = NilErr
                       /\ MapHas(workflows', w)
                       /\ workflows'[w].CurrentState = l[1]
                       /\ workflows'[w].States = l
                       /\ \A from \in StateNames, e \in Events : Target(workflows'[w], from, e) = None
                       /\ workflows'[w].Data = EmptyMap
                       /\ MemHas(memory', WorkflowKey(w))]_vars

\* C22 witness: CreateWorkflow has just returned nil for an identifier whose earlier
\* workflow had taken a transition (a subscriber still holds its notification): the
\* workflow is at its first state again with an empty table and an empty bag.
C22_Witness ==
    /\ eret = NilErr
    /\ \E id \in DOMAIN workflows, c \in DOMAIN chans :
          /\ chans[c] # << >>
          /\ chans[c][1].TaskID = id
          /\ workflows[id].CurrentState = workflows[id].States[1]
          /\ workflows[id].Data = EmptyMap
          /\ \A from \in DOMAIN workflows[id].Transitions : workflows[id].Transitions[from] = EmptyMap

\* C23: when a TriggerEvent call with payload P is about to return nil, the data bag
\* of its workflow has the keys of the bag it found and the keys of P, every key of P
\* with the value of P and every other key with its old value; when the call is
\* about to return an error, the data bag of every workflow is as the call found it.
C23_PayloadMerged ==
    \A p \in Callers :
        LET id == targ[p].id
            P == targ[p].data
            before == targ[p].entry
        IN  /\ tpc[p] = "return nil" =>
                  /\ DOMAIN workflows[id].Data = (DOMAIN before[id].Data) \cup (DOMAIN P)
                  /\ \A k \in DOMAIN P : workflows[id].Data[k] = P[k]
                  /\ \A k \in (DOMAIN before[id].Data) \ (DOMAIN P) :
                        workflows[id].Data[k] = before[id].Data[k]
            /\ tpc[p] \in TriggerReturns \ {"return nil"} =>
                  /\ DOMAIN workflows = DOMAIN before
                  /\ \A w \in DOMAIN workflows : workflows[w].Data = before[w].Data

\* C23 witness: a TriggerEvent with payload {k1: 1} is about to return nil for a
\* workflow whose bag was {k1: 2, k2: 1}: k1 is overwritten and k2 is kept.
C23_Witness ==
    \E p \in Callers :
        /\ tpc[p] = "return nil"
        /\ targ[p].data = [k1 |-> 1]
        /\ targ[p].entry[targ[p].id].Data = [k1 |-> 2, k2 |-> 1]
        /\ workflows[targ[p].id].Data = [k1 |-> 1, k2 |-> 1]

\* C24: the step in which a TriggerEvent call applies its transition enqueues the
\* StateTransition {state before, state after, event, workflow id, payload} once to
\* every channel subscribed to that workflow that holds fewer than ChanCap
\* notifications and leaves every other channel (full, subscribed to another workflow,
\* unsubscribed) as it is, and the call goes on to return nil; a call that has reached
\* that step is never kept from taking it; no other step, so no failing TriggerEvent,
\* enqueues anything.
C24_NotifyOnTransition ==
    /\ [](\A p \in Callers : tpc[p] = "update" => ENABLED TriggerUpdate(p))
    /\ [][\A c \in DOMAIN chans :
            IF \E p \in Callers : tpc[p] = "update" /\ tpc'[p] # "update"
            THEN LET p == CHOOSE q \in Callers : tpc[q] = "update" /\ tpc'[q] # "update"
                     id == targ[p].id
                     transition == [From   |-> workflows[id].CurrentState,
                                    To     |-> workflows'[id].CurrentState,
                                    Event  |-> targ[p].event,
                                    TaskID |-> id,
                                    Data   |-> targ[p].data]
                 IN  /\ tpc'[p] = "return nil"
                     /\ chans'[c] =
                           IF Subscribed(subscribers, id, c) /\ Len(chans[c]) < ChanCap
                           THEN Append(chans[c], transition)
                           ELSE chans[c]
            ELSE \/ chans'[c] = chans[c]
                 \/ chans[c] # << >> /\ chans'[c] = Tail(chans[c])]_vars

\* C24 witness: the second TriggerEvent on wf1 is about to return nil; the first
\* subscriber of wf1 was full and still ends with the notification of the call
\* before, the second subscriber of wf1 has got both notifications, and the
\* subscriber of wf2 has got none.
C24_Witness ==
    \E p \in Callers :
        /\ tpc[p] = "return nil"
        /\ ntrigger = 2
        /\ targ[p].id = "wf1"
        /\ Len(chans[1]) = ChanCap
        /\ chans[1][ChanCap] # NewTransition(targ[p])
        /\ Len(chans[2]) = 2
        /\ chans[2][2] = NewTransition(targ[p])
        /\ chans[3] = << >>

\* C25: a Subscribe call of the engine for an identifier that has no workflow
\* returns an error and makes no channel and no subscription, and a call for an
\* existing workflow returns nil with its new channel subscribed; CreateWorkflow
\* changes no subscription; so only identifiers of existing workflows ever have
\* subscribers, and a workflow created under a new identifier starts with none.
C25_SubscribeUnknownWorkflow ==
    /\ [](\A w \in DOMAIN subscribers : MapHas(workflows, w))
    /\ [][(eret' # None /\ nadd' = nadd) =>
            /\ \A w \in WorkflowIDs :
                  EngineSubscribe(w) =>
                      IF MapHas(workflows, w)
                      THEN /\ eret' = NilErr
                           /\ Len(chans') = Len(chans) + 1
                           /\ Subscribed(subscribers', w, Len(chans'))
                      ELSE /\ eret' # NilErr
                           /\ UNCHANGED <<subscribers, chans, ectx, workflows, memory>>
            /\ \A w \in WorkflowIDs, l \in StateLists :
                  CreateWorkflow(w, l) => UNCHANGED <<subscribers, chans, ectx>>]_vars

\* C25 witness: Subscribe has just failed for an identifier without a workflow
\* while the other workflow exists; there is no channel and no subscription.
C25_Witness ==
    /\ eret = "workflow not found"
    /\ nadd = 0
    /\ workflows # EmptyMap
    /\ subscribers = EmptyMap
    /\ chans = << >>

\* C26: no write a caller makes to a workflow GetWorkflow returned (to its current
\* state, its state list, its transition table or its data bag) changes a workflow
\* of the engine.
C26_GetWorkflowDefensiveCopy ==
    [][nmut' # nmut => workflows' = workflows]_vars

\* the steps in which a TriggerEvent call hands the workflow to memory.Store
EngineStores == \E p \in Callers : TriggerUpdate(p)

\* C27: no component lock is held across a call of the key/value store: the step in
\* which the engine calls memory.Store is taken with e.mutex released. (The executor
\* takes its lock only around its map accesses, inside single steps.)
C27_NoLockAcrossStore ==
    [][EngineStores => emutex = NoHolder]_vars

\* C28: an error of Store is not an error of the call that stores. ExecuteTask goes
\* from its Store to the Publish of task.started, to the registry entry and to the
\* start of its handler, returning nil, and a failing Store leaves the store as it
\* was; CreateWorkflow, AddTransition and TriggerEvent over a failing store return
\* nil, keep the change they made to the workflow in memory and store nothing.
C28_StoreFailureNonFatal ==
    /\ [][\A d \in Dispatches :
            /\ (disp[d].pc = "store" /\ disp'[d].pc # "store") =>
                  /\ disp'[d].pc = "publish"
                  /\ storeFails => memory' = memory
            /\ (disp[d].pc = "publish" /\ disp'[d].pc # "publish") =>
                  /\ disp'[d].pc = "register"
                  /\ \E ev \in published' :
                        /\ ev.topic = "task.started"
                        /\ ev.by = <<"dispatch", d>>
                        /\ ev.payload.task_id = TaskID(disp[d].task)
            /\ (disp[d].pc = "register" /\ disp'[d].pc # "register") =>
                  /\ disp'[d].pc = "handle"
                  /\ ExecuteReturned(disp'[d].pc)
                  /\ MapHas(runningTasks', TaskID(disp[d].task))]_vars
    /\ [][storeFails =>
            /\ \A l \in StateLists :
                  (Len(l) > 0 /\ CreateWorkflow("wf1", l)) =>
                      /\ eret' = NilErr
                      /\ workflows'["wf1"] = NewWorkflow("wf1", l)
                      /\ memory' = memory
            /\ \A f \in StateNames, t \in StateNames :
                  (AddTransitionAccepts(workflows, "wf1", f, t) /\ AddTransition("wf1", f, t, "go")) =>
                      /\ eret' = NilErr
                      /\ Target(workflows'["wf1"], f, "go") = t
                      /\ memory' = memory
            /\ \A p \in Callers :
                  (tpc[p] = "update" /\ tpc'[p] # "update") =>
                      /\ tpc'[p] = "return nil"
                      /\ workflows'[targ[p].id].CurrentState = targ[p].nextState
                      /\ workflows'[targ[p].id].Data = MergeData(workflows[targ[p].id].Data, targ[p].data)
                      /\ memory' = memory]_vars

\* C28 witness: over a failing store ExecuteTask has returned nil and the handler of
\* its task runs: task.started is published and the task is in the registry, while
\* no snapshot of the task was ever stored.
C28_Witness ==
    \E d \in Dispatches :
        /\ storeFails
        /\ disp[d].pc = "handle"
        /\ ~MemHas(memory, TaskKey(TaskID(disp[d].task)))
        /\ MapHas(runningTasks, TaskID(disp[d].task))
        /\ \E ev \in published : ev.topic = "task.started" /\ ev.by = <<"dispatch", d>>

(***************************************************************************)
(* Framework (pkg/agent/framework.go): Start, Stop, ExecuteGoal and the     *)
(* goroutine that runs executePlan. The calls the framework makes on the   *)
(* engine, the executor and the bus are the actions of those components;   *)
(* the framework reads their outcome from the state they leave.            *)
(***************************************************************************)
\* the threads inside TriggerEvent: ExecuteGoal and executePlan
GoalCaller == "c1"
PlanCaller == "c2"

\* the task lists the planner makes from the answer of the language model; a1 has a
\* type with a registered handler, b1 a type without one
Plans == {<< >>, <<"a1">>, <<"b1">>, <<"a1", "b1">>, <<"b1", "a1">>}

\* states := []string{"pending", "running", "completed", "failed"}
PlanStates == <<"pending", "running", "completed", "failed">>

\* the workflow of a plan after CreateWorkflow and the AddTransition calls for the
\* transitions map of ExecuteGoal
PlanWorkflow ==
    SetTransition(
        SetTransition(
            SetTransition(
                SetTransition(NewWorkflow(PlanWorkflowID, PlanStates), "pending", "start", "running"),
                "running", "complete", "completed"),
            "running", "fail", "failed"),
        "failed", "retry", "pending")

\* the payloads of the TriggerEvent calls of ExecuteGoal and executePlan
StartData == [plan_id |-> PlanID, goal |-> "g"]
PlanEventData(event) ==
    IF event = "fail" THEN [task_id |-> "t", error |-> "no handler"] ELSE [plan_id |-> PlanID]

\* eventBus.Subscribe(ctx, "task.*") of startEventMonitoring
MonitorTopic == "task.*"

\* `if !f.isRunning`
RunningAlways(flag) == TRUE
Running(flag) == flag

\* Start, lines 104-111: the language model is not healthy or the browser does not
\* start (ok is false): Start returns an error
StartCheck(ok) ==
    /\ start.pc = "idle"
    /\ start.n < MaxStart
    /\ start' = [pc |-> IF ok THEN "monitor" ELSE "idle", n |-> start.n + 1, base |-> Len(bchans)]
    /\ UNCHANGED <<isRunning, goal, ppc, stop, copies, nmut, storeFails, evars, xvars, bvars, memory>>

\* Start, line 114: startEventMonitoring subscribes to the bus
StartMonitor ==
    /\ start.pc = "monitor"
    /\ Len(bchans) = start.base
    /\ BusSubscribe(MonitorTopic)

\* Start, lines 116-119: f.isRunning = true; return nil
StartDone ==
    /\ start.pc = "monitor"
    /\ Len(bchans) > start.base
    /\ isRunning' = TRUE
    /\ start' = [start EXCEPT !.pc = "idle"]
    /\ UNCHANGED <<goal, ppc, stop, copies, nmut, storeFails, evars, xvars, bvars, memory>>

\* InMemoryStore.Clear
MemClear(mem) == [k \in DOMAIN mem |-> None]

\* Stop, lines 126-134: close the browser, clear the store; errors are logged
StopClear ==
    /\ stop.pc = "idle"
    /\ stop.n < MaxStop
    /\ stop' = [stop EXCEPT !.pc = "clear", !.n = @ + 1]
    /\ memory' = MemClear(memory)
    /\ UNCHANGED <<isRunning, goal, ppc, start, copies, nmut, storeFails, evars, xvars, bvars>>

\* Stop, lines 136-139: f.isRunning = false; return nil
StopDone ==
    /\ stop.pc = "clear"
    /\ isRunning' = FALSE
    /\ stop' = [stop EXCEPT !.pc = "idle"]
    /\ UNCHANGED <<goal, ppc, start, copies, nmut, storeFails, evars, xvars, bvars, memory>>

\* ExecuteGoal, lines 146-148
GoalCheck ==
    /\ goal.pc = "idle"
    /\ goal' = [goal EXCEPT !.pc = IF Running(isRunning) THEN "plan" ELSE "return not running"]
    /\ UNCHANGED <<isRunning, ppc, start, stop, copies, nmut, storeFails, evars, xvars, bvars, memory>>

\* ExecuteGoal, lines 151-154: planner.CreatePlan fails (ok is false), or returns
\* the plan with the given tasks after storing it under plan:<id>
GoalCreatePlan(tasks, ok) ==
    /\ goal.pc = "plan"
    /\ IF ok
       THEN /\ goal' = [pc |-> "workflow", plan |-> tasks]
            /\ memory' = Store(memory, PlanKey(PlanID), PlanID, storeFails)
       ELSE /\ goal' = [goal EXCEPT !.pc = "return plan failed"]
            /\ UNCHANGED memory
    /\ UNCHANGED <<isRunning, ppc, start, stop, copies, nmut, storeFails, evars, xvars, bvars>>

\* ExecuteGoal, lines 157-176: CreateWorkflow and the four AddTransition calls for
\* the workflow of the plan, whose identifier no other thread has yet; each call
\* takes e.mutex and stores the workflow
GoalCreateWorkflow ==
    /\ goal.pc = "workflow"
    /\ CanLock(emutex)
    /\ workflows' = MapSet(workflows, PlanWorkflowID, PlanWorkflow)
    /\ memory' = Store(memory, WorkflowKey(PlanWorkflowID), PlanWorkflowID, storeFails)
    /\ eret' = None
    /\ goal' = [goal EXCEPT !.pc = "spawn"]
    /\ UNCHANGED <<subscribers, chans, emutex, tpc, targ, ntrigger, nadd, ectx>>
    /\ UNCHANGED <<isRunning, ppc, start, stop, copies, nmut, storeFails, xvars, bvars>>

\* ExecuteGoal, line 179: go f.executePlan(ctx, plan)
GoalSpawn ==
    /\ goal.pc = "spawn"
    /\ goal' = [goal EXCEPT !.pc = "start"]
    /\ ppc' = "loop"
    /\ UNCHANGED <<isRunning, start, stop, copies, nmut, storeFails, evars, xvars, bvars, memory>>

\* ExecuteGoal, lines 182-185: TriggerEvent(ctx, workflowID, "start", ...)
GoalTriggerStart ==
    /\ goal.pc = "start"
    /\ TriggerLock(GoalCaller, PlanWorkflowID, "start", StartData)

\* ExecuteGoal, line 187: the result of TriggerEvent is dropped; return plan, nil
GoalReturn ==
    /\ goal.pc = "start"
    /\ tpc[GoalCaller] \in TriggerReturns
    /\ goal' = [goal EXCEPT !.pc = "return plan"]
    /\ UNCHANGED <<isRunning, ppc, start, stop, copies, nmut, storeFails, evars, xvars, bvars, memory>>

\* executePlan, lines 235-242: the next turn of the loop calls ExecuteTask for task
\* i of the plan, once the call for the task before has returned nil
PlanDispatch(i) ==
    /\ ppc = "loop"
    /\ i <= Len(goal.plan)
    /\ IF i = 1 THEN TRUE ELSE ExecuteReturned(disp[i - 1].pc)
    /\ ExecuteLookup(i, goal.plan[i])

\* every task of the plan has been dispatched with result nil
AllDispatched == \A i \in 1..Len(goal.plan) : ExecuteReturned(disp[i].pc)
\* an ExecuteTask call of the plan has returned an error
DispatchFailed == \E i \in 1..Len(goal.plan) : disp[i].pc = "return no handler"

\* executePlan: the loop ends, by the return of line 254 after an error of
\* ExecuteTask, or after the last task
PlanLoopEnds ==
    /\ ppc = "loop"
    /\ DispatchFailed \/ AllDispatched
    /\ ppc' = IF DispatchFailed THEN "fail" ELSE "complete"
    /\ UNCHANGED <<isRunning, goal, start, stop, copies, nmut, storeFails, evars, xvars, bvars, memory>>

\* executePlan, lines 250-253 and 259-261: TriggerEvent(ctx, workflowID, "fail", ...)
\* or TriggerEvent(ctx, workflowID, "complete", ...)
PlanTrigger ==
    /\ ppc \in {"fail", "complete"}
    /\ TriggerLock(PlanCaller, PlanWorkflowID, ppc, PlanEventData(ppc))

\* executePlan: the result of TriggerEvent is dropped and the goroutine ends
PlanReturn ==
    /\ ppc \in {"fail", "complete"}
    /\ tpc[PlanCaller] \in TriggerReturns
    /\ ppc' = "done"
    /\ UNCHANGED <<isRunning, goal, start, stop, copies, nmut, storeFails, evars, xvars, bvars, memory>>

\* the deferred Unlock of a TriggerEvent call whose caller has its result
FrameworkUnlock ==
    \/ goal.pc # "start" /\ TriggerUnlock(GoalCaller)
    \/ ppc = "done" /\ TriggerUnlock(PlanCaller)

\* the statements of ExecuteTask after the handler lookup, and the goroutines of
\* the handlers
DispatchSteps ==
    \/ ExecuteSteps
    \/ \E d \in Dispatches, r \in HandlerResults : HandlerReturns(d, r)
    \/ CompleteSteps

FrameworkNext ==
    \/ \E ok \in BOOLEAN : StartCheck(ok)
    \/ StartMonitor
    \/ StartDone
    \/ StopClear
    \/ StopDone
    \/ GoalCheck
    \/ \E tasks \in Plans, ok \in BOOLEAN : GoalCreatePlan(tasks, ok)
    \/ GoalCreateWorkflow
    \/ GoalSpawn
    \/ GoalTriggerStart
    \/ GoalReturn
    \/ \E i \in Dispatches : PlanDispatch(i)
    \/ PlanLoopEnds
    \/ PlanTrigger
    \/ PlanReturn
    \/ \E p \in Callers : TriggerRead(p)
    \/ \E p \in Callers : TriggerUpdate(p)
    \/ FrameworkUnlock
    \/ DispatchSteps

\* NewFramework: registerTaskHandlers registers the handlers of the framework
FrameworkHandlers == {"noop"}
InitFramework ==
    /\ EngineInit /\ BusInit /\ MemInit /\ EnvInit
    /\ handlers = FrameworkHandlers
    /\ runningTasks = EmptyMap
    /\ heap = [o \in Tasks |-> [Status |-> "pending", Error |-> ""]]
    /\ published = {}
    /\ disp = [d \in Dispatches |-> IdleDispatch]
    /\ canc = [c \in Cancels |-> IdleCancel]

SpecFramework == InitFramework /\ [][FrameworkNext]_vars

\* the statements of ExecuteGoal after the check of the running flag
GoalSteps ==
    \/ \E tasks \in Plans, ok \in BOOLEAN : GoalCreatePlan(tasks, ok)
    \/ GoalCreateWorkflow
    \/ GoalSpawn
    \/ GoalTriggerStart
    \/ GoalReturn

\* the statements of the executePlan goroutine
PlanSteps ==
    \/ \E i \in Dispatches : PlanDispatch(i)
    \/ PlanLoopEnds
    \/ PlanTrigger
    \/ PlanReturn

\* the statements of TriggerEvent under e.mutex
TriggerSteps(p) == TriggerRead(p) \/ TriggerUpdate(p)

\* the threads inside ExecuteGoal, executePlan, TriggerEvent and ExecuteTask keep
\* running; Start, Stop and ExecuteGoal need not be called and handlers may run
\* forever
SpecFrameworkFair ==
    /\ SpecFramework
    /\ WF_vars(GoalSteps)
    /\ WF_vars(PlanSteps)
    /\ \A p \in Callers : WF_vars(TriggerSteps(p))
    /\ WF_vars(FrameworkUnlock)
    /\ WF_vars(ExecuteSteps)

\* the workflow of the plan is in the given state
PlanWorkflowIn(state) ==
    IF MapHas(workflows, PlanWorkflowID) THEN workflows[PlanWorkflowID].CurrentState = state ELSE FALSE

\* C29: after ExecuteGoal has returned a plan, the workflow of the plan eventually
\* is in completed with every task of the plan dispatched with result nil, or in
\* failed with the dispatch of some task failed, whatever the order of the "start"
\* trigger of ExecuteGoal and the trigger of the executePlan goroutine.
C29_PlanWorkflowSettles ==
    (goal.pc = "return plan") ~>
        (\/ goal.pc = "return plan" /\ DispatchFailed /\ PlanWorkflowIn("failed")
         \/ goal.pc = "return plan" /\ ~DispatchFailed /\ AllDispatched /\ PlanWorkflowIn("completed"))

\* nothing of a plan exists: no plan in the store, no workflow of a plan in the
\* engine or the store, no ExecuteTask call, no executePlan goroutine
NothingCreated ==
    /\ goal.plan = << >>
    /\ memory[PlanKey(PlanID)] = None
    /\ ~MapHas(workflows, PlanWorkflowID)
    /\ memory[WorkflowKey(PlanWorkflowID)] = None
    /\ ppc = "none"
    /\ \A d \in Dispatches : disp[d].pc = "idle"

\* C30: the running flag is false after NewFramework; the step that ends a Stop
\* leaves it false, and a Stop can always be called and always ends, Start called
\* before or not; the flag turns true only in the step that ends a Start whose
\* checks passed; an ExecuteGoal call that finds the flag false returns "framework
\* is not running", and after it no plan, no workflow and no dispatched task exists.
C30_RunningFlag ==
    /\ ~isRunning
    /\ [](stop.pc = "idle" /\ stop.n < MaxStop => ENABLED StopClear)
    /\ [](stop.pc = "clear" => ENABLED StopDone)
    /\ [](goal.pc = "return not running" => NothingCreated)
    /\ [][/\ (stop.pc = "clear" /\ stop'.pc = "idle") => ~isRunning'
          /\ (~isRunning /\ isRunning') => (start.pc = "monitor" /\ start'.pc = "idle")
          /\ (~isRunning /\ goal.pc = "idle" /\ goal'.pc # "idle") => goal'.pc = "return not running"]_vars

\* C30 witness: Start was never called, a Stop has ended, and ExecuteGoal has
\* returned "framework is not running" with the flag false.
C30_Witness ==
    /\ start.n = 0
    /\ stop.n >= 1
    /\ stop.pc = "idle"
    /\ ~isRunning
    /\ goal.pc = "return not running"

\* C31: whatever the order of the steps of a Publish call and of the Unsubscribe
\* calls (explicit, or made after the cancellation of a context) on its topic, the
\* Publish never sends on a closed channel (which panics), never enqueues its
\* payload twice to one channel, and when it returns nil every channel it read that
\* is still registered has got the payload or was found full.
C31_PublishUnsubscribeSafe ==
    \A p \in Publishers :
        /\ bpub[p].pc # "panic"
        /\ \A ch \in DOMAIN bchans : Count(bpub[p].delivered, ch) <= 1
        /\ bpub[p].pc = "return nil" =>
               \A ch \in SeqToSet(bpub[p].snap) \cap SeqToSet(BusSubscribers(bpub[p].topic)) :
                   ch \in SeqToSet(bpub[p].delivered) \cup bpub[p].skipped

\* C32: once a CancelTask call has returned nil for a task, dispatched once, whose
\* persisted status is cancelled, no later step (so no step of the completion path
\* run after the handler returned nil or an error) changes that persisted status.
C32_CancelledStays ==
    [][\A c \in Cancels :
          (/\ canc[c].pc = "return nil"
           /\ DispatchCount(disp', canc[c].id) <= 1
           /\ PersistedStatus(memory, heap, canc[c].id) = "cancelled")
              => PersistedStatus(memory', heap', canc[c].id) = "cancelled"]_vars

\* the Publish calls dispatch d has made on the given topics
PublishedOn(d, topics) == {ev \in published : ev.by = <<"dispatch", d>> /\ ev.topic \in topics}

\* the notification the completion path of dispatch d publishes for handler result err
CompletionEvent(d, err) ==
    IF err # NilErr
    THEN [topic |-> "task.failed", by |-> <<"dispatch", d>>,
          payload |-> [task_id |-> TaskID(disp[d].task), error |-> err]]
    ELSE [topic |-> "task.completed", by |-> <<"dispatch", d>>,
          payload |-> [task_id |-> TaskID(disp[d].task), result |-> TaskResult(disp[d].task)]]

\* C33: an ExecuteTask call that has returned nil has published task.started
\* {task_id, type} once and nothing else on that topic; a dispatch has published on
\* task.completed or task.failed only after its handler returned, and then exactly
\* the one notification that belongs to the handler's result, task.completed
\* {task_id, result} for nil and task.failed {task_id, error} for an error; the step
\* that publishes it comes after the task.started of that dispatch.
C33_StartedThenOneOutcome ==
    /\ [](\A d \in Dispatches :
            /\ ExecuteReturned(disp[d].pc) =>
                  PublishedOn(d, {"task.started"}) =
                      {[topic |-> "task.started", by |-> <<"dispatch", d>>,
                        payload |-> [task_id |-> TaskID(disp[d].task), type |-> TaskType(disp[d].task)]]}
            /\ PublishedOn(d, {"task.completed", "task.failed"}) =
                  IF disp[d].pc \in {"persist", "delete", "done"}
                  THEN {CompletionEvent(d, disp[d].err)}
                  ELSE {})
    /\ [][\A d \in Dispatches :
            PublishedOn(d, {"task.completed", "task.failed"})' # PublishedOn(d, {"task.completed", "task.failed"})
                => /\ disp[d].pc = "notify"
                   /\ PublishedOn(d, {"task.started"}) # {}]_vars

\* C33 witness: one dispatch has published task.started and then task.failed, another
\* task.started and then task.completed, and both goroutines have ended.
C33_Witness ==
    \E d \in Dispatches, e \in Dispatches :
        /\ disp[d].pc = "done" /\ disp[d].err # NilErr
        /\ disp[e].pc = "done" /\ disp[e].err = NilErr
        /\ PublishedOn(d, {"task.started", "task.completed", "task.failed"}) # {}
        /\ Cardinality(PublishedOn(d, {"task.started", "task.completed", "task.failed"})) = 2
        /\ Cardinality(PublishedOn(e, {"task.started", "task.completed", "task.failed"})) = 2

\* C34: whenever a dispatch has published task.started and its handler has not
\* returned yet, the identifier of its task is in the in-flight registry, so a
\* CancelTask for it would not fail with "task not running".
C34_StartedImpliesInFlight ==
    \A d \in Dispatches :
        (PublishedOn(d, {"task.started"}) # {} /\ disp[d].pc \in {"register", "handle"})
            => InFlight(runningTasks, TaskID(disp[d].task))

\* C35: for every dispatch whose handler is executing, the in-flight registry holds
\* under the identifier of its task the cancel function of that dispatch's own
\* context, also when other ExecuteTask calls were made for the same identifier.
C35_OwnCancelHandle ==
    \A d \in Dispatches :
        disp[d].pc = "handle" => CancelFunc(runningTasks, TaskID(disp[d].task)) = d

\* each notification of queue q starts in the state the one before it ended in
Chained(q) == \A i \in 1..(Len(q) - 1) : q[i + 1].From = q[i].To

\* the channels of EngineBacklog that start empty: fewer than ChanCap notifications
\* are sent to them, so none is dropped for them
Undropped == {2, 3}

C37_CompletedAfterTasks ==
    PlanWorkflowIn("completed") =>
        \A i \in 1..Len(goal.plan) :
            PersistedStatus(memory, heap, TaskID(goal.plan[i])) = "completed"

(***************************************************************************)
(* The executor over a store that Framework.Stop clears.                   *)
(***************************************************************************)
\* ExecuteTask and CancelTask calls for one task, and Stop calls of the framework
\* that shares its store with the executor
StopCancelNext ==
    \/ RegisterHandler("noop")
    \/ \E d \in Dispatches : ExecuteLookup(d, "a1")
    \/ ExecuteSteps
    \/ \E d \in Dispatches, r \in HandlerResults : HandlerReturns(d, r)
    \/ CompleteSteps
    \/ \E c \in Cancels, id \in TaskIDs : CancelLookup(c, id)
    \/ CancelSteps
    \/ StopClear
    \/ StopDone

SpecStopCancel == Init /\ [][StopCancelNext]_vars

\* the CancelTask call c has returned an error
CancelFailed(c) == canc[c].pc \in {"return not running", "return retrieve failed"}

\* C38: a CancelTask call that has returned an error has called no cancel function,
\* has written to no task and has published nothing, also when it found the task in
\* the in-flight registry and no snapshot under task:<id>.
C38_FailedCancelNoEffect ==
    \A c \in Cancels :
        CancelFailed(c) =>
            /\ canc[c].cancel = NoCancel
            /\ canc[c].task = None
            /\ {ev \in published : ev.by = <<"cancel", c>>} = {}

(***************************************************************************)
(* A caller that calls CancelTask again.                                   *)
(***************************************************************************)
\* the caller of CancelTask call c has its result and is free to call again
CancelReturn(c) ==
    /\ canc[c].pc \in CancelReturns
    /\ canc' = [canc EXCEPT ![c] = IdleCancel]
    /\ UNCHANGED <<handlers, runningTasks, heap, published, disp, memory, evars, bvars, fvars>>

\* ExecuteTask calls for one task and CancelTask calls one after the other
CancelAgainNext ==
    \/ RegisterHandler("noop")
    \/ \E d \in Dispatches : ExecuteLookup(d, "a1")
    \/ ExecuteSteps
    \/ \E d \in Dispatches, r \in HandlerResults : HandlerReturns(d, r)
    \/ CompleteSteps
    \/ \E c \in Cancels, id \in TaskIDs : CancelLookup(c, id)
    \/ CancelSteps
    \/ \E c \in Cancels : CancelReturn(c)

SpecCancelAgain == Init /\ [][CancelAgainNext]_vars

\* task.cancelled has been published for task identifier id: a CancelTask call for
\* it has succeeded
CancelledPublished(id) ==
    \E ev \in published : ev.topic = "task.cancelled" /\ ev.payload.task_id = id

\* C39: for a task dispatched once, a CancelTask call made after task.cancelled was
\* published for its identifier returns "task not running", handler returned or
\* not, and no CancelTask call publishes task.cancelled for an identifier it was
\* already published for.
C39_CancelledOnce ==
    [][\A c \in Cancels :
          /\ (/\ canc[c].pc = "idle" /\ canc'[c].pc # "idle"
              /\ DispatchCount(disp, canc'[c].id) <= 1
              /\ CancelledPublished(canc'[c].id))
                 => canc'[c].pc = "return not running"
          /\ (/\ canc[c].pc = "publish" /\ canc'[c].pc = "return nil"
              /\ DispatchCount(disp, canc[c].id) <= 1)
                 => ~CancelledPublished(canc[c].id)]_vars

(***************************************************************************)
(* The executor publishing on the bus the framework monitors.              *)
(***************************************************************************)
\* the topics of the executor's Publish calls
TaskTopics == {"task.started", "task.completed", "task.failed", "task.cancelled"}

\* the Publish calls made on topic t: by the executor, and arrived in the bus
ExecutorCalls(t) == Cardinality({ev \in published : ev.topic = t})
BusCalls(t) == Cardinality({n \in DOMAIN bcalls : bcalls[n].topic = t})

\* a Publish call of the executor on topic t enters InMemoryEventBus.Publish
MonitorPublish(p, t) ==
    /\ BusCalls(t) < ExecutorCalls(t)
    /\ BusPublishRead(p, t)

\* another component subscribes to one of the executor's topics by its name
OtherSubscribe(t) ==
    /\ start.pc # "monitor"
    /\ BusSubscribe(t)

\* Start with its event monitoring, ExecuteTask and CancelTask for one task, the
\* executor's notifications going through the bus, a subscriber by topic name
MonitorNext ==
    \/ \E ok \in BOOLEAN : StartCheck(ok)
    \/ StartMonitor
    \/ StartDone
    \/ OtherSubscribe("task.started")
    \/ ExecuteLookup(1, "a1")
    \/ ExecuteSteps
    \/ \E d \in Dispatches, r \in HandlerResults : HandlerReturns(d, r)
    \/ CompleteSteps
    \/ \E c \in Cancels, id \in TaskIDs : CancelLookup(c, id)
    \/ CancelSteps
    \/ \E p \in Publishers, t \in TaskTopics : MonitorPublish(p, t)
    \/ \E p \in Publishers : BusPublishSend(p)
    \/ \E ch \in 1..MaxBusSubs : BusReceive(ch)

SpecMonitor == InitFramework /\ [][MonitorNext]_vars

\* the channels of the event monitoring: those subscribed to MonitorTopic
MonitorChans(subs, arrs) == SeqToSet(SliceElems(arrs, TopicSlice(subs, MonitorTopic)))

\* C40: a Publish call of the executor on task.started, task.completed,
\* task.failed or task.cancelled that enters the bus while the event monitoring is
\* subscribed finds the channel of the monitoring among the subscribers it sends
\* to, so the monitoring gets the notification unless its queue is full.
C40_MonitoringReceivesTaskEvents ==
    [][\A p \in Publishers :
          (/\ Len(bcalls') > Len(bcalls)
           /\ bpub'[p].n = Len(bcalls')
           /\ bpub'[p].topic \in TaskTopics
           /\ MonitorChans(bsubs, barrays) # {})
              => /\ bpub'[p].pc = "send"
                 /\ MonitorChans(bsubs, barrays) \subseteq SeqToSet(bpub'[p].snap)]_vars

====
